---- MODULE Spec2Model ----
(***************************************************************************)
(* A model of the skyll skill-search core: the in-memory cache             *)
(* (src/src/cache/memory.py), the source aggregator and the search         *)
(* service (src/src/core/service.py) and the GitHub content fetcher        *)
(* (src/src/clients/github.py).                                            *)
(*                                                                         *)
(* Optional values (Python's `x | None`) are sequences of length 0 or 1:   *)
(* <<>> is None and <<v>> is the value v.                                  *)
(***************************************************************************)
EXTENDS Integers, Sequences, FiniteSets, TLC

VARIABLES
    \* ---- InMemoryCache (src/src/cache/memory.py)
    store,        \* _store: the dict, as the sequence of its entries in dict order
    stats,        \* _stats: CacheStats
    max_size,     \* _max_size (0 stands for None: both are falsy at memory.py:141)
    default_ttl,  \* _default_ttl
    now,          \* time.time()
    lastOp,       \* the cache call that was made last, when, and what it returned
    nOps,         \* how many cache calls were made (bounds the counters)
    lastSet,      \* history: per key, the last set call still in force
    insOrder,     \* history: the stored keys, in the order they were inserted
    getLog,       \* history: how many get calls returned a value, how many returned None
    lastStats,    \* <<>> before any stats() call, then <<what the last one returned>>
    cleanup_task,     \* _cleanup_task: <<>> for None, else <<the task>>, asleep until wake_at
    cleanup_interval, \* _cleanup_interval
    sweepLog,         \* history: the runs of _cleanup_expired made by the task
    sweep_tasks,      \* every task that start created, oldest first (SpecLifecycle,
                      \* where cleanup_task is <<the task's position in sweep_tasks>>)
    stopping,         \* the callers suspended in stop's `await self._cleanup_task`,
                      \* in the order they suspended, each with the task it awaits
    \* ---- the source aggregator (SkillSearchService._search_all_sources)
    sources,      \* _sources: each with its registry name, enabled flag and what
                  \* its backend answers to the query
    limit,        \* the limit argument
    agg_pc,       \* "idle" before the call, "done" after it
    agg_raised,   \* whether the call raised
    agg_out,      \* the list the call returned
    \* ---- SkillSearchService.search / get_skill and GitHubClient
    repo_cache,      \* GitHubClient._repo_cache
    tree_requests,   \* per repository, how many tree requests were sent
    branch_requests, \* per repository, how many default-branch requests were sent
    tree_failed,     \* history: per repository, whether a branch or tree retrieval failed
    svc_call,        \* the call in progress, if any, and its arguments
    tasks,           \* the _process_search_result coroutines of the call
    response,        \* what the last call returned
    nCalls,          \* how many calls were made
    nTicks,          \* how many times the clock was advanced
    lastFetch,       \* history: per (source, id), the last return of fetch_skill
    \* ---- concurrent callers of one InMemoryCache
    locked,       \* _lock: whether the asyncio.Lock is held
    cpc,          \* per caller: "idle", "waiting" for the lock, or "inside" it
    cop,          \* per caller: the call it is making (with the time of the call, for set)
    clocal,       \* per caller: the local variables of the call
    cret,         \* per caller: what its last call returned
    seq_store,    \* the store of the same calls made one after another
    seq_stats,    \* and their counters
    nConc,        \* how many calls were made
    \* ---- the functions checked on their own (URL builders, resolver, ...)
    fn_in,        \* the arguments of the call
    fn_out        \* <<>> before the call, <<what it returned>> after it

cacheVars == <<store, stats, max_size, default_ttl, now, lastOp, nOps, lastSet, insOrder,
              getLog, lastStats>>

aggVars == <<sources, limit, agg_pc, agg_raised, agg_out>>

svcVars == <<repo_cache, tree_requests, branch_requests, tree_failed, svc_call, tasks, response,
            nCalls, nTicks, lastFetch>>

concVars == <<locked, cpc, cop, clocal, cret, seq_store, seq_stats, nConc>>

fnVars == <<fn_in, fn_out>>

sweepVars == <<cleanup_task, cleanup_interval, sweepLog, sweep_tasks, stopping>>

vars == <<cacheVars, sweepVars, aggVars, svcVars, concVars, fnVars>>

\* what the cache's operations leave alone, and what the aggregator's do
nonCacheVars == <<sweepVars, aggVars, svcVars, concVars, fnVars>>
nonAggVars == <<cacheVars, sweepVars, svcVars, concVars, fnVars>>

\* no function is being checked on its own
FnIdle == fn_in = <<>> /\ fn_out = <<>>

----------------------------------------------------------------------------
(* Bounds of the model *)

MaxTime == 2
MaxOps == 3
\* the most results a source backend answers with
MaxResults == 2
MaxLimit == 2
\* how many search / get_skill calls are followed, and how many times the
\* service's clock is advanced
MaxCalls == 2
MaxSvcTicks == 2
\* how many calls the concurrent callers of the cache make
MaxConcOps == 3

CacheKeys == {"k1", "k2", "k3"}
CacheValues == {"v1", "v2"}
\* the ttl argument of set: omitted, or an int
TtlArgs == {<<>>, <<0>>, <<1>>}
MaxSizes == {2}
DefaultTtls == {-1, 1}

None == "None"

----------------------------------------------------------------------------
(* InMemoryCache *)

\* the cache as built by default and not started: no cleanup task
DEFAULT_CLEANUP_INTERVAL == 300
NoSweep == [runs |-> 0, removed |-> 0, at |-> 0]
SweepIdle ==
    /\ cleanup_task = <<>>
    /\ cleanup_interval = DEFAULT_CLEANUP_INTERVAL
    /\ sweepLog = NoSweep
    /\ sweep_tasks = <<>>
    /\ stopping = <<>>

\* CacheEntry.is_expired
is_expired_inclusive(entry, t) == entry.expires_at # <<>> /\ t >= entry.expires_at[1]
is_expired(entry, t) == entry.expires_at # <<>> /\ t > entry.expires_at[1]

KeysOf(st) == {st[i].key : i \in 1..Len(st)}

\* position of key in the dict, 0 when it is not there
KeyIndex(st, key) ==
    IF key \in KeysOf(st) THEN CHOOSE i \in 1..Len(st) : st[i].key = key ELSE 0

\* del self._store[key]
RemoveAt(st, i) == SubSeq(st, 1, i - 1) \o SubSeq(st, i + 1, Len(st))

SelectSeqNotExpired(st, t) ==
    LET keep(e) == ~is_expired(e, t) IN SelectSeq(st, keep)

\* InMemoryCache.get: the store and counters after the call, and its result
cache_get(st, s, key, t) ==
    LET i == KeyIndex(st, key) IN
    IF i = 0 THEN [store |-> st, stats |-> [s EXCEPT !.misses = @ + 1], hit |-> FALSE, value |-> None]
    ELSE IF is_expired(st[i], t)
    THEN [store |-> RemoveAt(st, i),
          stats |-> [s EXCEPT !.misses = @ + 1, !.evictions = @ + 1],
          hit |-> FALSE, value |-> None]
    ELSE [store |-> st, stats |-> [s EXCEPT !.hits = @ + 1], hit |-> TRUE, value |-> st[i].value]

\* InMemoryCache.set
cache_set_evict_when_full(st, s, key, value, ttlArg, t, dflt, maxsz) ==
    LET ttl == IF ttlArg # <<>> THEN ttlArg[1] ELSE dflt
        expires_at == IF ttl > 0 THEN <<t + ttl>> ELSE <<>>
        entry == [key |-> key, value |-> value, expires_at |-> expires_at]
        evict == maxsz # 0 /\ Len(st) >= maxsz
        st1 == IF evict THEN Tail(st) ELSE st
        s1 == IF evict THEN [s EXCEPT !.evictions = @ + 1] ELSE s
        i == KeyIndex(st1, key)
    IN  [store |-> IF i = 0 THEN Append(st1, entry) ELSE [st1 EXCEPT ![i] = entry],
         stats |-> [s1 EXCEPT !.sets = @ + 1]]
cache_set_evict_newest(st, s, key, value, ttlArg, t, dflt, maxsz) ==
    LET ttl == IF ttlArg # <<>> THEN ttlArg[1] ELSE dflt
        expires_at == IF ttl > 0 THEN <<t + ttl>> ELSE <<>>
        entry == [key |-> key, value |-> value, expires_at |-> expires_at]
        evict == maxsz # 0 /\ Len(st) >= maxsz /\ key \notin KeysOf(st)
        st1 == IF evict THEN SubSeq(st, 1, Len(st) - 1) ELSE st
        s1 == IF evict THEN [s EXCEPT !.evictions = @ + 1] ELSE s
        i == KeyIndex(st1, key)
    IN  [store |-> IF i = 0 THEN Append(st1, entry) ELSE [st1 EXCEPT ![i] = entry],
         stats |-> [s1 EXCEPT !.sets = @ + 1]]
cache_set(st, s, key, value, ttlArg, t, dflt, maxsz) ==
    LET ttl == IF ttlArg # <<>> THEN ttlArg[1] ELSE dflt
        expires_at == IF ttl > 0 THEN <<t + ttl>> ELSE <<>>
        entry == [key |-> key, value |-> value, expires_at |-> expires_at]
        \* evict the oldest (first in dict order) when full and the key is new
        evict == maxsz # 0 /\ Len(st) >= maxsz /\ key \notin KeysOf(st)
        st1 == IF evict THEN Tail(st) ELSE st
        s1 == IF evict THEN [s EXCEPT !.evictions = @ + 1] ELSE s
        i == KeyIndex(st1, key)
    IN  \* self._store[key] = ...: an existing key keeps its place in the dict
        [store |-> IF i = 0 THEN Append(st1, entry) ELSE [st1 EXCEPT ![i] = entry],
         stats |-> [s1 EXCEPT !.sets = @ + 1]]

\* InMemoryCache.delete
cache_delete_counts_absent(st, s, key) ==
    LET i == KeyIndex(st, key) IN
    [store |-> IF i # 0 THEN RemoveAt(st, i) ELSE st,
     stats |-> [s EXCEPT !.deletes = @ + 1],
     ret |-> i # 0]
cache_delete(st, s, key) ==
    LET i == KeyIndex(st, key) IN
    IF i # 0
    THEN [store |-> RemoveAt(st, i), stats |-> [s EXCEPT !.deletes = @ + 1], ret |-> TRUE]
    ELSE [store |-> st, stats |-> s, ret |-> FALSE]

\* InMemoryCache.exists
cache_exists_counts_miss(st, s, key, t) ==
    LET i == KeyIndex(st, key) IN
    IF i = 0 THEN [store |-> st, stats |-> s, ret |-> FALSE]
    ELSE IF is_expired(st[i], t)
    THEN [store |-> RemoveAt(st, i),
          stats |-> [s EXCEPT !.evictions = @ + 1, !.misses = @ + 1], ret |-> FALSE]
    ELSE [store |-> st, stats |-> s, ret |-> TRUE]
cache_exists(st, s, key, t) ==
    LET i == KeyIndex(st, key) IN
    IF i = 0 THEN [store |-> st, stats |-> s, ret |-> FALSE]
    ELSE IF is_expired(st[i], t)
    THEN [store |-> RemoveAt(st, i), stats |-> [s EXCEPT !.evictions = @ + 1], ret |-> FALSE]
    ELSE [store |-> st, stats |-> s, ret |-> TRUE]

\* InMemoryCache._cleanup_expired
cache_cleanup_expired_counted_once(st, s, t) ==
    LET kept == SelectSeqNotExpired(st, t) IN
    [store |-> kept,
     stats |-> [s EXCEPT !.evictions = @ + (IF Len(kept) < Len(st) THEN 1 ELSE 0)]]
cache_cleanup_expired(st, s, t) ==
    LET kept == SelectSeqNotExpired(st, t) IN
    [store |-> kept, stats |-> [s EXCEPT !.evictions = @ + (Len(st) - Len(kept))]]

\* round(x, 2) of the quotient num / den, in hundredths: the nearest hundredth,
\* the even one when two are equally near
round_hundredths_down(num, den) == (100 * num) \div den
round_hundredths(num, den) ==
    LET q == (100 * num) \div den
        r == (100 * num) % den
    IN  IF 2 * r < den THEN q
        ELSE IF 2 * r > den THEN q + 1
        ELSE IF q % 2 = 0 THEN q ELSE q + 1

\* InMemoryCache.stats: hit_rate is in hundredths of a percent
cache_stats(st, s, maxsz) ==
    LET total_gets == s.hits + s.misses IN
    [size |-> Len(st), max_size |-> maxsz,
     hits |-> s.hits, misses |-> s.misses, sets |-> s.sets,
     deletes |-> s.deletes, evictions |-> s.evictions,
     hit_rate |-> IF total_gets > 0 THEN round_hundredths(s.hits * 100, total_gets) ELSE 0]

BoolStr(b) == IF b THEN "True" ELSE "False"

NoSet == [live |-> FALSE, value |-> None, ttlArg |-> <<>>, at |-> 0]

\* the insertion order after a call that took the store from st to st2: the keys
\* that left the store leave it, the keys that entered it are the newest
InsertionOrder(order, st, st2) ==
    LET stays(k) == k \in KeysOf(st2)
        new == KeysOf(st2) \ KeysOf(st)
    IN  SelectSeq(order, stays) \o
        (IF new = {} THEN <<>> ELSE <<CHOOSE k \in new : TRUE>>)

CacheInit ==
    /\ store = <<>>
    /\ stats = [hits |-> 0, misses |-> 0, sets |-> 0, deletes |-> 0, evictions |-> 0]
    /\ max_size \in MaxSizes
    /\ default_ttl \in DefaultTtls
    /\ now = 0
    /\ lastOp = [op |-> "init", key |-> "-", ret |-> None, at |-> 0]
    /\ nOps = 0
    /\ lastSet = [k \in CacheKeys |-> NoSet]
    /\ insOrder = <<>>
    /\ getLog = [value |-> 0, absent |-> 0]
    /\ lastStats = <<>>
    /\ SweepIdle

get ==
    \E key \in CacheKeys :
        LET r == cache_get(store, stats, key, now) IN
        /\ nOps < MaxOps
        /\ store' = r.store
        /\ stats' = r.stats
        /\ lastOp' = [op |-> "get", key |-> key, ret |-> r.value, at |-> now]
        /\ nOps' = nOps + 1
        /\ insOrder' = InsertionOrder(insOrder, store, r.store)
        /\ getLog' = IF r.value # None THEN [getLog EXCEPT !.value = @ + 1]
                                        ELSE [getLog EXCEPT !.absent = @ + 1]
        /\ UNCHANGED <<max_size, default_ttl, now, lastSet, lastStats, nonCacheVars>>

set ==
    \E key \in CacheKeys, value \in CacheValues, ttlArg \in TtlArgs :
        LET r == cache_set(store, stats, key, value, ttlArg, now, default_ttl, max_size) IN
        /\ nOps < MaxOps
        /\ store' = r.store
        /\ stats' = r.stats
        /\ lastOp' = [op |-> "set", key |-> key, ret |-> None, at |-> now]
        /\ nOps' = nOps + 1
        /\ lastSet' = [k \in CacheKeys |->
                          IF k = key
                          THEN [live |-> TRUE, value |-> value, ttlArg |-> ttlArg, at |-> now]
                          ELSE IF k \in KeysOf(store) /\ k \notin KeysOf(r.store)
                          THEN NoSet
                          ELSE lastSet[k]]
        /\ insOrder' = InsertionOrder(insOrder, store, r.store)
        /\ UNCHANGED <<max_size, default_ttl, now, getLog, lastStats, nonCacheVars>>

delete ==
    \E key \in CacheKeys :
        LET r == cache_delete(store, stats, key) IN
        /\ nOps < MaxOps
        /\ store' = r.store
        /\ stats' = r.stats
        /\ lastOp' = [op |-> "delete", key |-> key, ret |-> BoolStr(r.ret), at |-> now]
        /\ nOps' = nOps + 1
        /\ lastSet' = [lastSet EXCEPT ![key] = NoSet]
        /\ insOrder' = InsertionOrder(insOrder, store, r.store)
        /\ UNCHANGED <<max_size, default_ttl, now, getLog, lastStats, nonCacheVars>>

exists ==
    \E key \in CacheKeys :
        LET r == cache_exists(store, stats, key, now) IN
        /\ nOps < MaxOps
        /\ store' = r.store
        /\ stats' = r.stats
        /\ lastOp' = [op |-> "exists", key |-> key, ret |-> BoolStr(r.ret), at |-> now]
        /\ nOps' = nOps + 1
        /\ insOrder' = InsertionOrder(insOrder, store, r.store)
        /\ UNCHANGED <<max_size, default_ttl, now, lastSet, getLog, lastStats, nonCacheVars>>

clear ==
    /\ nOps < MaxOps
    /\ store' = <<>>
    /\ lastOp' = [op |-> "clear", key |-> "-", ret |-> None, at |-> now]
    /\ nOps' = nOps + 1
    /\ lastSet' = [k \in CacheKeys |-> NoSet]
    /\ insOrder' = <<>>
    /\ UNCHANGED <<stats, max_size, default_ttl, now, getLog, lastStats, nonCacheVars>>

\* one run of the background sweep (_cleanup_loop calls it after each sleep)
cleanup_expired ==
    LET r == cache_cleanup_expired(store, stats, now) IN
    /\ nOps < MaxOps
    /\ store' = r.store
    /\ stats' = r.stats
    /\ lastOp' = [op |-> "cleanup", key |-> "-", ret |-> None, at |-> now]
    /\ nOps' = nOps + 1
    /\ insOrder' = InsertionOrder(insOrder, store, r.store)
    /\ UNCHANGED <<max_size, default_ttl, now, lastSet, getLog, lastStats, nonCacheVars>>

\* the clock advances
Tick ==
    /\ now < MaxTime
    /\ now' = now + 1
    /\ UNCHANGED <<store, stats, max_size, default_ttl, lastOp, nOps, lastSet, insOrder,
                   getLog, lastStats, nonCacheVars>>

CacheNext == get \/ set \/ delete \/ exists \/ clear \/ cleanup_expired \/ Tick

\* InMemoryCache.stats
stats_call ==
    /\ nOps < MaxOps
    /\ lastStats' = <<cache_stats(store, stats, max_size)>>
    /\ lastOp' = [op |-> "stats", key |-> "-", ret |-> None, at |-> now]
    /\ nOps' = nOps + 1
    /\ UNCHANGED <<store, stats, max_size, default_ttl, now, lastSet, insOrder, getLog,
                   nonCacheVars>>

StatsNext == CacheNext \/ stats_call

\* the cleanup_interval arguments the cache is built with, in clock ticks
CleanupIntervals == {1, 2}

\* the keys that were set before the cache is observed, and the ttl of each:
\* <<>> for a key that was not set, <<0>> for one set never to expire
SweepKeys == {"k1", "k2"}
SweepTtls == {<<>>, <<0>>, <<1>>, <<MaxTime>>}

\* the entry that set(key, "v1", ttl) at time 0 stores, as a dict of its own
stored(key, ttlArg) ==
    IF ttlArg = <<>> THEN <<>>
    ELSE cache_set(<<>>, [sets |-> 0, evictions |-> 0], key, "v1", ttlArg, 0, 0, 0).store

\* InMemoryCache.__init__ with a cleanup_interval argument, then, at time 0, a
\* call set(key, "v1", ttl) for some of the keys.  These sets are not counted
\* by nOps: the calls that follow are.
SweepInit ==
    \E ttls \in [SweepKeys -> SweepTtls] :
        /\ store = stored("k1", ttls["k1"]) \o stored("k2", ttls["k2"])
        /\ stats = [hits |-> 0, misses |-> 0, sets |-> Len(store), deletes |-> 0,
                    evictions |-> 0]
        /\ max_size = 0
        /\ default_ttl = 1
        /\ now = 0
        /\ lastOp = IF ttls["k2"] # <<>> THEN [op |-> "set", key |-> "k2", ret |-> None, at |-> 0]
                    ELSE IF ttls["k1"] # <<>>
                    THEN [op |-> "set", key |-> "k1", ret |-> None, at |-> 0]
                    ELSE [op |-> "init", key |-> "-", ret |-> None, at |-> 0]
        /\ nOps = 0
        /\ lastSet = [k \in CacheKeys |->
                         IF k \in SweepKeys /\ ttls[k] # <<>>
                         THEN [live |-> TRUE, value |-> "v1", ttlArg |-> ttls[k], at |-> 0]
                         ELSE NoSet]
        /\ insOrder = [i \in 1..Len(store) |-> store[i].key]
        /\ getLog = [value |-> 0, absent |-> 0]
        /\ lastStats = <<>>
        /\ cleanup_task = <<>>
        /\ cleanup_interval \in CleanupIntervals
        /\ sweepLog = NoSweep
        /\ sweep_tasks = <<>>
        /\ stopping = <<>>

\* InMemoryCache.start: the new task runs _cleanup_loop, which first sleeps
start ==
    /\ nOps < MaxOps
    /\ cleanup_task' = IF cleanup_task = <<>>
                       THEN <<[wake_at |-> now + cleanup_interval]>>
                       ELSE cleanup_task
    /\ lastOp' = [op |-> "start", key |-> "-", ret |-> None, at |-> now]
    /\ nOps' = nOps + 1
    /\ UNCHANGED <<store, stats, max_size, default_ttl, now, lastSet, insOrder, getLog,
                   lastStats, cleanup_interval, sweepLog, sweep_tasks, stopping, aggVars, svcVars,
                   concVars, fnVars>>

\* InMemoryCache.stop: the task is cancelled in its sleep
stop ==
    /\ nOps < MaxOps
    /\ cleanup_task' = <<>>
    /\ lastOp' = [op |-> "stop", key |-> "-", ret |-> None, at |-> now]
    /\ nOps' = nOps + 1
    /\ UNCHANGED <<store, stats, max_size, default_ttl, now, lastSet, insOrder, getLog,
                   lastStats, cleanup_interval, sweepLog, sweep_tasks, stopping, aggVars, svcVars,
                   concVars, fnVars>>

\* InMemoryCache._cleanup_loop, one turn of the loop: the sleep is over, the
\* task runs _cleanup_expired and sleeps again
cleanup_loop ==
    /\ cleanup_task # <<>>
    /\ now >= cleanup_task[1].wake_at
    /\ LET r == cache_cleanup_expired(store, stats, now) IN
        /\ store' = r.store
        /\ stats' = r.stats
        /\ insOrder' = InsertionOrder(insOrder, store, r.store)
        /\ sweepLog' = [runs |-> sweepLog.runs + 1,
                        removed |-> Len(store) - Len(r.store),
                        at |-> now]
    /\ cleanup_task' = <<[wake_at |-> now + cleanup_interval]>>
    /\ lastOp' = [op |-> "cleanup", key |-> "-", ret |-> None, at |-> now]
    /\ UNCHANGED <<max_size, default_ttl, now, nOps, lastSet, getLog, lastStats,
                   cleanup_interval, sweep_tasks, stopping, aggVars, svcVars, concVars, fnVars>>

\* the calls made once the cache is filled: reads, start and stop
SweepNext == get \/ exists \/ Tick \/ start \/ stop \/ cleanup_loop

\* how many get calls the cache has served when observation starts
MaxGets == 3

\* the read histories observed: no get yet, or MaxGets of them
GetHistories == {<<0, 0>>} \cup {<<h, MaxGets - h>> : h \in 0..MaxGets}

\* A cache that has been in use: set("k1", "v1", ttl=0) when some get is to find
\* a value, then h calls get("k1") and m calls get("k2"), all at time 0.  The
\* set counts as the one call made so far; the gets are counted by getLog.
StatsInit ==
    \E hm \in GetHistories :
        LET h == hm[1]
            m == hm[2]
            filled == h > 0
        IN  /\ store = IF filled THEN <<[key |-> "k1", value |-> "v1", expires_at |-> <<>>]>>
                                  ELSE <<>>
            /\ stats = [hits |-> h, misses |-> m, sets |-> IF filled THEN 1 ELSE 0,
                        deletes |-> 0, evictions |-> 0]
            /\ max_size \in MaxSizes
            /\ default_ttl \in DefaultTtls
            /\ now = 0
            /\ lastOp = IF m > 0 THEN [op |-> "get", key |-> "k2", ret |-> None, at |-> 0]
                        ELSE IF h > 0 THEN [op |-> "get", key |-> "k1", ret |-> "v1", at |-> 0]
                        ELSE [op |-> "init", key |-> "-", ret |-> None, at |-> 0]
            /\ nOps = 1
            /\ lastSet = [k \in CacheKeys |->
                             IF filled /\ k = "k1"
                             THEN [live |-> TRUE, value |-> "v1", ttlArg |-> <<0>>, at |-> 0]
                             ELSE NoSet]
            /\ insOrder = IF filled THEN <<"k1">> ELSE <<>>
            /\ getLog = [value |-> h, absent |-> m]
            /\ lastStats = <<>>
            /\ SweepIdle

----------------------------------------------------------------------------
(* Search sources and the aggregator.  Strings that are compared after a   *)
(* conversion (ids, repository references) are sequences of characters.    *)

SKILLS_SH == "skills.sh"
SKILL_GARDEN == "skill-garden"

\* str.lower(), on the characters the model uses
LowerChar(c) == IF c = "A" THEN "a" ELSE IF c = "B" THEN "b" ELSE IF c = "O" THEN "o" ELSE c
lower(str) == [i \in 1..Len(str) |-> LowerChar(str[i])]

\* SkillSearchResult.unique_key
unique_key_case_sensitive(r) == r.source \o <<"/">> \o r.id
unique_key(r) == lower(r.source \o <<"/">> \o r.id)

Min(a, b) == IF a <= b THEN a ELSE b
Max(a, b) == IF a >= b THEN a ELSE b

\* the Python slice seq[:n]
SliceTo(seq, n) ==
    IF n >= 0 THEN SubSeq(seq, 1, Min(n, Len(seq)))
    ELSE SubSeq(seq, 1, Max(0, Len(seq) + n))

\* SkillsShSource.search: every failure of the request is caught and answered
\* with the empty list; the rows are mapped with the marketplace's name
SkillsShSource_search(src, lim) ==
    IF ~src.enabled \/ src.response.fail THEN [exc |-> FALSE, results |-> <<>>]
    ELSE [exc |-> FALSE,
          results |-> [i \in 1..Len(src.response.rows) |->
                          [id |-> src.response.rows[i].id,
                           source |-> src.response.rows[i].source,
                           source_registry |-> SKILLS_SH,
                           installs |-> src.response.rows[i].installs]]]

\* SkillRegistrySource.search: the matches (rows, best first) cut to the limit,
\* with install count 0; nothing is caught, an exception leaves the call
SkillRegistrySource_search(src, lim) ==
    IF ~src.enabled THEN [exc |-> FALSE, results |-> <<>>]
    ELSE IF src.response.fail THEN [exc |-> TRUE, results |-> <<>>]
    ELSE LET cut == SliceTo(src.response.rows, lim) IN
         [exc |-> FALSE,
          results |-> [i \in 1..Len(cut) |->
                          [id |-> cut[i].id,
                           source |-> cut[i].source,
                           source_registry |-> SKILL_GARDEN,
                           installs |-> 0]]]

source_search(src, lim) ==
    IF src.registry = SKILLS_SH THEN SkillsShSource_search(src, lim)
    ELSE SkillRegistrySource_search(src, lim)

\* the search tasks: one per enabled source, in the order of _sources
search_tasks(srcs, lim) ==
    LET on(src) == src.enabled
        en == SelectSeq(srcs, on)
    IN  [i \in 1..Len(en) |-> source_search(en[i], lim)]

\* asyncio.gather(*search_tasks, return_exceptions=True): an exception is an
\* element of the list it returns
gather_propagating(coros) ==
    [raised |-> \E i \in 1..Len(coros) : coros[i].exc, results |-> coros]
gather_return_exceptions(coros) == [raised |-> FALSE, results |-> coros]

\* one turn of the loop over a source's results (service.py:278-287)
seen_keys_first_wins(seen, result) ==
    IF \A i \in 1..Len(seen) : unique_key(seen[i]) # unique_key(result)
    THEN Append(seen, result)
    ELSE seen
seen_keys_put(seen, result) ==
    LET key == unique_key(result) IN
    IF \A i \in 1..Len(seen) : unique_key(seen[i]) # key
    THEN Append(seen, result)
    ELSE IF result.source_registry = SKILLS_SH
    THEN [i \in 1..Len(seen) |-> IF unique_key(seen[i]) = key THEN result ELSE seen[i]]
    ELSE seen

RECURSIVE seen_keys_results(_, _)
seen_keys_results(seen, results) ==
    IF results = <<>> THEN seen
    ELSE seen_keys_results(seen_keys_put(seen, Head(results)), Tail(results))

\* the loop over all_results: the dict's values, in dict order
RECURSIVE seen_keys(_, _)
seen_keys(seen, all_results) ==
    IF all_results = <<>> THEN seen
    ELSE IF Head(all_results).exc THEN seen_keys(seen, Tail(all_results))
    ELSE seen_keys(seen_keys_results(seen, Head(all_results).results), Tail(all_results))

\* list.sort(key=installs, reverse=True): stable, by insertion
RECURSIVE insert_sorted(_, _)
insert_sorted(sorted, r) ==
    IF sorted = <<>> THEN <<r>>
    ELSE IF Head(sorted).installs >= r.installs
    THEN <<Head(sorted)>> \o insert_sorted(Tail(sorted), r)
    ELSE <<r>> \o sorted

RECURSIVE sort_by_installs_from(_, _)
sort_by_installs_from(sorted, rest) ==
    IF rest = <<>> THEN sorted
    ELSE sort_by_installs_from(insert_sorted(sorted, Head(rest)), Tail(rest))

sort_not_done(results) == results
sort_by_installs(results) == sort_by_installs_from(<<>>, results)

\* SkillSearchService._search_all_sources
search_all_sources(srcs, lim) ==
    LET all_results == gather_return_exceptions(search_tasks(srcs, lim)) IN
    IF all_results.raised THEN [raised |-> TRUE, out |-> <<>>]
    ELSE LET deduplicated == sort_by_installs(seen_keys(<<>>, all_results.results)) IN
         [raised |-> FALSE, out |-> SliceTo(deduplicated, lim)]

\* ---- the inputs of the aggregator
AggIds == {<<"a">>, <<"A">>, <<"b">>}
AggRepos == {<<"o", "/", "r">>}
\* install counts the marketplace reports
MarketInstalls == {1, 2}

SeqsUpTo(S, n) == UNION {[1..k -> S] : k \in 0..n}

Rows(registry) ==
    [id : AggIds, source : AggRepos,
     installs : IF registry = SKILLS_SH THEN MarketInstalls ELSE {0}]

Responses(registry) ==
    {[fail |-> TRUE, rows |-> <<>>]} \cup
    {[fail |-> FALSE, rows |-> rows] : rows \in SeqsUpTo(Rows(registry), MaxResults)}

\* a source of the given registry; what a disabled source would answer is never asked
Sources(registry) ==
    {[registry |-> registry, enabled |-> TRUE, response |-> resp] : resp \in Responses(registry)}
    \cup {[registry |-> registry, enabled |-> FALSE, response |-> [fail |-> FALSE, rows |-> <<>>]]}

\* __aenter__ builds [SkillsShSource] or [SkillsShSource, SkillRegistrySource];
\* the aggregator itself takes the sources in whatever order the list has
SourceOrders == {<<SKILLS_SH>>, <<SKILLS_SH, SKILL_GARDEN>>, <<SKILL_GARDEN, SKILLS_SH>>}

SourceLists ==
    UNION {{srcs \in [1..Len(order) -> UNION {Sources(order[i]) : i \in 1..Len(order)}] :
                \A i \in 1..Len(order) : srcs[i].registry = order[i]} : order \in SourceOrders}

AggIdle ==
    /\ sources = <<>>
    /\ limit = 0
    /\ agg_pc = "idle"
    /\ agg_raised = FALSE
    /\ agg_out = <<>>

AggInit ==
    /\ sources \in SourceLists
    /\ limit \in 0..MaxLimit
    /\ agg_pc = "idle"
    /\ agg_raised = FALSE
    /\ agg_out = <<>>

\* one call of _search_all_sources(query, limit)
search_all_sources_call ==
    LET r == search_all_sources(sources, limit) IN
    /\ agg_pc = "idle"
    /\ agg_pc' = "done"
    /\ agg_raised' = r.raised
    /\ agg_out' = r.out
    /\ UNCHANGED <<sources, limit, nonAggVars>>

AggNext == search_all_sources_call

CacheIdle ==
    /\ store = <<>>
    /\ stats = [hits |-> 0, misses |-> 0, sets |-> 0, deletes |-> 0, evictions |-> 0]
    /\ max_size = 0
    /\ default_ttl = 1
    /\ now = 0
    /\ lastOp = [op |-> "init", key |-> "-", ret |-> None, at |-> 0]
    /\ nOps = 0
    /\ lastSet = [k \in CacheKeys |-> NoSet]
    /\ insOrder = <<>>
    /\ getLog = [value |-> 0, absent |-> 0]
    /\ lastStats = <<>>
    /\ SweepIdle

----------------------------------------------------------------------------
(* The search service and the content fetcher.  A call's search results are *)
(* processed by one coroutine each; a coroutine runs without interruption  *)
(* from one await of a remote request to the next, so each action below is *)
(* one such run.  The cache of the service is the InMemoryCache above      *)
(* (store, stats, now), built with default_ttl = cache_ttl and no max_size.*)

\* SkillSearchService.__init__: cache_ttl
CACHE_TTL == 86400
\* the ttl of a cached failure (service.py:166)
FAILURE_TTL == 300

SvcRepos == {"r1"}
SvcIds == {"s1", "s2"}
\* the search results a call can be about: (repository, skill id)
SvcResults == {[source |-> "r1", id |-> "s1"], [source |-> "r1", id |-> "s2"]}

\* what a SKILL.md can hold: a well-formed document; front matter that is not
\* valid YAML; valid front matter whose `name` is a YAML list, not a string
DocKinds == {"valid", "bad_yaml", "list_name"}

\* the trees a repository can answer with, as the folders that hold a SKILL.md:
\* none, one (every id then resolves to it), one per id, or two of which one
\* belongs to no id
Trees == {{}, {"s1"}, SvcIds, {"s2", "s3"}}

ERR_ACCESS == "Could not access repository"
ERR_NO_SKILLS == "No SKILL.md files found"
ERR_LOCATE == "Could not locate skill content in repository"
ERR_CONTENT == "Failed to fetch content"
ERR_PARSE == "Parse error"

\* SkillSearchService._cache_key
cache_key(source, id) == <<"skill", source, id>>

\* SkillParser.parse: does it raise ParseError on this document
parse_raises(doc) == doc = "bad_yaml"

\* Skill(...): pydantic validates the fields; title is `str` (models.py:93)
\* and parse passes the YAML value of `name` through (parser.py:116)
skill_validation_raises(doc) == doc = "list_name"

\* GitHubClient._find_skill_path on folder names: the id's own folder, or else
\* the only SKILL.md of the tree
find_skill_path(skill_paths, id) ==
    IF id \in skill_paths THEN <<id>>
    ELSE IF Cardinality(skill_paths) = 1 THEN <<CHOOSE p \in skill_paths : TRUE>>
    ELSE <<>>

\* GitHubClient.fetch_skill once _get_repo_tree has returned repo_info, up to
\* the request for the raw content
fetch_skill_locate_resolver_first(repo_info, id) ==
    IF repo_info = <<>> THEN [await_raw |-> FALSE, error |-> <<ERR_ACCESS>>]
    ELSE IF find_skill_path(repo_info[1].skills, id) = <<>>
    THEN [await_raw |-> FALSE, error |-> <<ERR_LOCATE>>]
    ELSE IF repo_info[1].skills = {} THEN [await_raw |-> FALSE, error |-> <<ERR_NO_SKILLS>>]
    ELSE [await_raw |-> TRUE, error |-> <<>>]
fetch_skill_locate(repo_info, id) ==
    IF repo_info = <<>> THEN [await_raw |-> FALSE, error |-> <<ERR_ACCESS>>]
    ELSE IF repo_info[1].skills = {} THEN [await_raw |-> FALSE, error |-> <<ERR_NO_SKILLS>>]
    ELSE IF find_skill_path(repo_info[1].skills, id) = <<>>
    THEN [await_raw |-> FALSE, error |-> <<ERR_LOCATE>>]
    ELSE [await_raw |-> TRUE, error |-> <<>>]

\* the reference files a successful fetch_skill can return when it is asked
\* for them: none, or one
RefLists == {<<>>, <<"references/guide.md">>}

\* the references _fetch_and_cache_content returns: those of the FetchResult,
\* and [] when the fetcher was not called
fetched_references(task) ==
    IF task.fetched = <<>> THEN <<>> ELSE task.fetched[1].references

\* SkillSearchService._build_skill
build_skill(task, parsed, references, fetch_error) ==
    IF parsed # <<>>
    THEN IF skill_validation_raises(parsed[1])
         THEN [task EXCEPT !.pc = "done", !.raised = TRUE]
         ELSE [task EXCEPT !.pc = "done",
                           !.skill = <<[id |-> task.result.id, source |-> task.result.source,
                                        content |-> <<"body">>, references |-> references,
                                        fetch_error |-> <<>>]>>]
    ELSE [task EXCEPT !.pc = "done",
                      !.skill = <<[id |-> task.result.id, source |-> task.result.source,
                                   content |-> <<>>, references |-> references,
                                   fetch_error |-> fetch_error]>>]

\* _process_search_result from the return of _fetch_and_cache_content on
process_search_result_parse(task, content, error) ==
    IF content # <<>>
    THEN IF parse_raises(content[1])
         THEN build_skill([task EXCEPT !.parsed = content], <<>>, fetched_references(task),
                          <<ERR_PARSE>>)
         ELSE build_skill([task EXCEPT !.parsed = content, !.ok = TRUE], content,
                          fetched_references(task), error)
    ELSE build_skill(task, <<>>, fetched_references(task), error)

\* get_skill from the return of _fetch_and_cache_content on
get_skill_parse(task, content, error) ==
    IF content = <<>> THEN [task EXCEPT !.pc = "done"]
    ELSE IF parse_raises(content[1]) THEN [task EXCEPT !.pc = "done", !.parsed = content]
    ELSE build_skill([task EXCEPT !.parsed = content, !.ok = TRUE], content,
                     fetched_references(task), error)

after_content(kind, task, content, error) ==
    IF kind = "search" THEN process_search_result_parse(task, content, error)
    ELSE get_skill_parse(task, content, error)

\* _process_search_result, `if not include_content`: is the Skill built from
\* the search result alone
built_without_content_never(include_content) == FALSE
built_without_content(include_content) == ~include_content

\* _fetch_and_cache_content, `if cached is not None and not include_references`:
\* is the cached content returned
served_from_cache_on_hit(hit, include_references) == hit
served_from_cache(hit, include_references) == hit /\ ~include_references

\* _fetch_and_cache_content from the return of fetch_skill on: the outcome is
\* cached (a failure for 5 minutes) and handed back
fetch_and_cache_store_one_ttl(c, kind, task, fr, t) ==
    LET key == cache_key(task.result.source, task.result.id)
        c2 == IF fr.content # <<>>
              THEN cache_set(c.store, c.stats, key, [content |-> fr.content, error |-> <<>>],
                             <<CACHE_TTL>>, t, default_ttl, max_size)
              ELSE cache_set(c.store, c.stats, key, [content |-> <<>>, error |-> fr.error],
                             <<CACHE_TTL>>, t, default_ttl, max_size)
    IN  [cache |-> c2,
         task |-> after_content(kind, [task EXCEPT !.fetched = <<fr>>], fr.content, fr.error)]
fetch_and_cache_store(c, kind, task, fr, t) ==
    LET key == cache_key(task.result.source, task.result.id)
        c2 == IF fr.content # <<>>
              THEN cache_set(c.store, c.stats, key, [content |-> fr.content, error |-> <<>>],
                             <<CACHE_TTL>>, t, default_ttl, max_size)
              ELSE cache_set(c.store, c.stats, key, [content |-> <<>>, error |-> fr.error],
                             <<FAILURE_TTL>>, t, default_ttl, max_size)
    IN  [cache |-> c2,
         task |-> after_content(kind, [task EXCEPT !.fetched = <<fr>>], fr.content, fr.error)]

\* repo_info is the local variable of fetch_skill; fetched is the FetchResult
\* fetch_skill returned, if it was called; parsed is the document given to
\* the parser, if one was
NewTask(result) ==
    [result |-> result, pc |-> "start", repo_info |-> <<>>, fetched |-> <<>>,
     parsed |-> <<>>, skill |-> <<>>, raised |-> FALSE, ok |-> FALSE]

NoCall == [kind |-> "idle", include_content |-> FALSE, include_references |-> FALSE]

NoResponse == [kind |-> "none", with_content |-> FALSE, results |-> 0, raised |-> FALSE, skills |-> <<>>]

\* the search results of a call carry distinct unique keys (the aggregator's
\* output); of two batches that differ in the order of the results only, one is kept
Batches == {<<>>} \cup {<<r>> : r \in SvcResults}
           \cup {<<[source |-> "r1", id |-> "s1"], [source |-> "r1", id |-> "s2"]>>}

SvcIdle ==
    /\ repo_cache = [r \in SvcRepos |-> [cached |-> FALSE, info |-> <<>>]]
    /\ tree_requests = [r \in SvcRepos |-> 0]
    /\ branch_requests = [r \in SvcRepos |-> 0]
    /\ tree_failed = [r \in SvcRepos |-> FALSE]
    /\ svc_call = NoCall
    /\ tasks = <<>>
    /\ response = NoResponse
    /\ nCalls = 0
    /\ nTicks = 0
    /\ lastFetch = [r \in SvcResults |-> [done |-> FALSE, ok |-> FALSE, at |-> 0]]

\* SkillSearchService() with the default cache: InMemoryCache(default_ttl=cache_ttl)
SvcCacheInit ==
    /\ store = <<>>
    /\ stats = [hits |-> 0, misses |-> 0, sets |-> 0, deletes |-> 0, evictions |-> 0]
    /\ max_size = 0
    /\ default_ttl = CACHE_TTL
    /\ now = 0
    /\ lastOp = [op |-> "init", key |-> "-", ret |-> None, at |-> 0]
    /\ nOps = 0
    /\ lastSet = [k \in CacheKeys |-> NoSet]
    /\ insOrder = <<>>
    /\ getLog = [value |-> 0, absent |-> 0]
    /\ lastStats = <<>>
    /\ SweepIdle

svcFrame == <<max_size, default_ttl, lastOp, nOps, lastSet, insOrder, getLog, lastStats,
             sweepVars, aggVars, concVars, fnVars>>

\* search(query, limit, include_content, include_raw, include_references), from
\* the search results the aggregator returned: one coroutine per result
search ==
    \E batch \in Batches, ic \in BOOLEAN, ir \in BOOLEAN :
        /\ svc_call.kind = "idle"
        /\ nCalls < MaxCalls
        /\ nCalls' = nCalls + 1
        /\ svc_call' = [kind |-> "search", include_content |-> ic, include_references |-> ir]
        /\ tasks' = [i \in 1..Len(batch) |-> NewTask(batch[i])]
        /\ response' = NoResponse
        /\ UNCHANGED <<repo_cache, tree_requests, branch_requests, tree_failed, nTicks,
                       lastFetch, store, stats, now, svcFrame>>

\* get_skill(source, skill_id, include_raw, include_references)
get_skill ==
    \E result \in SvcResults, ir \in BOOLEAN :
        /\ svc_call.kind = "idle"
        /\ nCalls < MaxCalls
        /\ nCalls' = nCalls + 1
        /\ svc_call' = [kind |-> "get_skill", include_content |-> TRUE, include_references |-> ir]
        /\ tasks' = <<NewTask(result)>>
        /\ response' = NoResponse
        /\ UNCHANGED <<repo_cache, tree_requests, branch_requests, tree_failed, nTicks,
                       lastFetch, store, stats, now, svcFrame>>

\* the history of fetches follows the coroutines: a fetch_skill that returns in
\* this step is the last one for its (source, id)
FetchHistory ==
    lastFetch' = [r \in SvcResults |->
                    IF \E i \in 1..Len(tasks) :
                          tasks[i].result = r /\ tasks[i].fetched = <<>> /\ tasks'[i].fetched # <<>>
                    THEN LET i == CHOOSE j \in 1..Len(tasks) : tasks[j].result = r
                         IN  [done |-> TRUE, ok |-> tasks'[i].fetched[1].content # <<>>, at |-> now]
                    ELSE lastFetch[r]]

\* the coroutine of result i runs the rest of fetch_skill with repo_info at hand
\* and c the cache as it is now: it fails at once, or asks for the raw content
ContinueWithTree(i, c, repo_info) ==
    LET loc == fetch_skill_locate(repo_info, tasks[i].result.id) IN
    IF loc.await_raw
    THEN /\ tasks' = [tasks EXCEPT ![i].pc = "await_raw", ![i].repo_info = repo_info]
         /\ store' = c.store
         /\ stats' = c.stats
    ELSE LET f == fetch_and_cache_store(c, svc_call.kind,
                                        [tasks[i] EXCEPT !.repo_info = repo_info],
                                        [content |-> <<>>, error |-> loc.error,
                                         references |-> <<>>], now) IN
         /\ tasks' = [tasks EXCEPT ![i] = f.task]
         /\ store' = f.cache.store
         /\ stats' = f.cache.stats

\* a coroutine starts: _process_search_result / get_skill up to its first
\* remote request
task_start ==
    \E i \in 1..Len(tasks) :
        /\ tasks[i].pc = "start"
        /\ IF built_without_content(svc_call.include_content)
           THEN \* _build_skill(result, None, None, [], None, include_raw)
                /\ tasks' = [tasks EXCEPT ![i] = build_skill(tasks[i], <<>>, <<>>, <<>>)]
                /\ UNCHANGED <<store, stats, repo_cache, branch_requests>>
           ELSE LET source == tasks[i].result.source
                    r == cache_get(store, stats, cache_key(source, tasks[i].result.id), now)
                IN  IF served_from_cache(r.hit, svc_call.include_references)
                    THEN \* the cached content is returned, with no error
                         /\ tasks' = [tasks EXCEPT ![i] =
                                after_content(svc_call.kind, tasks[i], r.value.content, <<>>)]
                         /\ store' = r.store
                         /\ stats' = r.stats
                         /\ UNCHANGED <<repo_cache, branch_requests>>
                    ELSE IF repo_cache[source].cached
                    THEN /\ ContinueWithTree(i, [store |-> r.store, stats |-> r.stats],
                                             repo_cache[source].info)
                         /\ UNCHANGED <<repo_cache, branch_requests>>
                    ELSE \* _get_repo_tree asks for the default branch
                         /\ tasks' = [tasks EXCEPT ![i].pc = "await_branch"]
                         /\ branch_requests' = [branch_requests EXCEPT ![source] = @ + 1]
                         /\ store' = r.store
                         /\ stats' = r.stats
                         /\ UNCHANGED repo_cache
        /\ FetchHistory
        /\ UNCHANGED <<tree_requests, tree_failed, svc_call, response, nCalls, nTicks, now, svcFrame>>

\* the answer to the default-branch request arrives
task_branch_response ==
    \E i \in 1..Len(tasks), found \in BOOLEAN :
        /\ tasks[i].pc = "await_branch"
        /\ IF found
           THEN \* the tree is asked for
                /\ tasks' = [tasks EXCEPT ![i].pc = "await_tree"]
                /\ tree_requests' = [tree_requests EXCEPT ![tasks[i].result.source] = @ + 1]
                /\ UNCHANGED <<repo_cache, tree_failed, store, stats>>
           ELSE /\ repo_cache' = [repo_cache EXCEPT ![tasks[i].result.source] =
                                    [cached |-> TRUE, info |-> <<>>]]
                /\ tree_failed' = [tree_failed EXCEPT ![tasks[i].result.source] = TRUE]
                /\ ContinueWithTree(i, [store |-> store, stats |-> stats], <<>>)
                /\ UNCHANGED tree_requests
        /\ FetchHistory
        /\ UNCHANGED <<branch_requests, svc_call, response, nCalls, nTicks, now, svcFrame>>

\* the answer to the tree request arrives: a failure, or the tree
task_tree_response ==
    \E i \in 1..Len(tasks), answer \in {<<>>} \cup {<<[skills |-> t]>> : t \in Trees} :
        /\ tasks[i].pc = "await_tree"
        /\ repo_cache' = [repo_cache EXCEPT ![tasks[i].result.source] =
                            [cached |-> TRUE, info |-> answer]]
        /\ tree_failed' = [tree_failed EXCEPT ![tasks[i].result.source] = @ \/ answer = <<>>]
        /\ ContinueWithTree(i, [store |-> store, stats |-> stats], answer)
        /\ FetchHistory
        /\ UNCHANGED <<tree_requests, branch_requests, svc_call, response, nCalls, nTicks, now, svcFrame>>

\* the answer to the raw-content request arrives: nothing, or the document,
\* and with it, when include_references is set, the reference files that
\* were found (their requests reach neither cache and are not followed)
task_raw_response ==
    \E i \in 1..Len(tasks), answer \in {<<>>} \cup {<<d>> : d \in DocKinds}, refs \in RefLists :
        LET fr == IF answer = <<>>
                  THEN [content |-> <<>>, error |-> <<ERR_CONTENT>>, references |-> <<>>]
                  ELSE [content |-> answer, error |-> <<>>, references |-> refs]
            f == fetch_and_cache_store([store |-> store, stats |-> stats],
                                       svc_call.kind, tasks[i], fr, now)
        IN  /\ refs # <<>> => answer # <<>> /\ svc_call.include_references
            /\ tasks[i].pc = "await_raw"
            /\ tasks' = [tasks EXCEPT ![i] = f.task]
            /\ store' = f.cache.store
            /\ stats' = f.cache.stats
            /\ FetchHistory
            /\ UNCHANGED <<repo_cache, tree_requests, branch_requests, tree_failed, svc_call,
                           response, nCalls, nTicks, now, svcFrame>>

\* asyncio.gather(*tasks) is over: search returns the skills, or the exception
\* of a coroutine leaves it; get_skill returns its skill or None
call_return ==
    /\ svc_call.kind # "idle"
    /\ \A i \in 1..Len(tasks) : tasks[i].pc = "done"
    /\ response' =
         [kind |-> svc_call.kind, with_content |-> svc_call.include_content,
          results |-> Len(tasks),
          raised |-> \E i \in 1..Len(tasks) : tasks[i].raised,
          skills |-> IF \E i \in 1..Len(tasks) : tasks[i].raised THEN <<>>
                     ELSE [i \in 1..Len(tasks) |->
                              [skill |-> tasks[i].skill, ok |-> tasks[i].ok,
                               parsed |-> tasks[i].parsed]]]
    /\ svc_call' = NoCall
    /\ tasks' = <<>>
    /\ UNCHANGED <<repo_cache, tree_requests, branch_requests, tree_failed, nCalls, nTicks,
                   lastFetch, store, stats, now, svcFrame>>

\* between two calls, five minutes or a day pass
svc_tick ==
    \E d \in {FAILURE_TTL, CACHE_TTL} :
        /\ svc_call.kind = "idle"
        /\ nCalls > 0   \* the clock starts with the first call
        /\ nTicks < MaxSvcTicks
        /\ nTicks' = nTicks + 1
        /\ now' = now + d
        /\ UNCHANGED <<store, stats, repo_cache, tree_requests, branch_requests, tree_failed,
                       svc_call, tasks, response, nCalls, lastFetch, svcFrame>>

SvcNext ==
    \/ search \/ get_skill \/ task_start \/ task_branch_response \/ task_tree_response
    \/ task_raw_response \/ call_return \/ svc_tick

----------------------------------------------------------------------------
(* Concurrent callers of one InMemoryCache.  Every method body is          *)
(* `async with self._lock:`; a caller waits for the lock, runs the first   *)
(* statements of the body when it gets it, and the rest, releasing the     *)
(* lock, in a later step.  Beside the store, the same calls are applied    *)
(* one after another, in the order the lock was taken, to seq_store.       *)

Callers == {"c1", "c2"}
SWEEP == "sweep"      \* the background task running _cleanup_loop
Procs == Callers \cup {SWEEP}

ConcKeys == {"k1", "k2"}
ConcTtlArgs == {<<>>, <<0>>}
ConcMaxSizes == {0, 1}

NoRet == [val |-> None, nums |-> <<>>]
NoLocal == [present |-> FALSE, expired |-> FALSE, value |-> None, keys |-> <<>>, hits |-> 0, total_gets |-> 0]
NoOp == [op |-> "none", key |-> "-", value |-> None, ttlArg |-> <<>>, expires_at |-> <<>>,
         at |-> 0, seq_ret |-> NoRet]

\* the calls a caller can make
ConcCalls ==
    {[NoOp EXCEPT !.op = o, !.key = k] : o \in {"get", "delete", "exists"}, k \in ConcKeys}
    \cup {[NoOp EXCEPT !.op = "set", !.key = k, !.value = "v1", !.ttlArg = a] :
            k \in ConcKeys, a \in ConcTtlArgs}
    \cup {[NoOp EXCEPT !.op = "clear"], [NoOp EXCEPT !.op = "stats"]}

\* asyncio.Lock.acquire returns only when the lock is not held
acquire_ignores_lock(held) == TRUE
acquire_enabled(held) == ~held

\* the dict of stats()
StatsNums(st, s, maxsz, hits, total_gets) ==
    <<Len(st), maxsz, s.hits, s.misses, s.sets, s.deletes, s.evictions, hits, total_gets>>

\* del self._store[key]
DelKey(st, key) == IF KeyIndex(st, key) = 0 THEN st ELSE RemoveAt(st, KeyIndex(st, key))

RECURSIVE DelKeys(_, _)
DelKeys(st, keys) == IF keys = <<>> THEN st ELSE DelKeys(DelKey(st, Head(keys)), Tail(keys))

\* the first statements of a method body, run as the lock is taken: what they
\* do to the store and counters, and the local variables they leave
body_first(op, st, s, t, maxsz) ==
    LET i == KeyIndex(st, op.key) IN
    CASE op.op \in {"get", "exists"} ->
           \* entry = self._store.get(key); entry is None; entry.is_expired()
           [store |-> st, stats |-> s,
            local |-> [NoLocal EXCEPT !.present = (i # 0),
                                      !.expired = (i # 0 /\ is_expired(st[i], t)),
                                      !.value = IF i # 0 THEN st[i].value ELSE None]]
      [] op.op = "set" ->
           \* the eviction of the oldest entry (memory.py:141-146)
           LET evict == maxsz # 0 /\ Len(st) >= maxsz /\ i = 0 IN
           [store |-> IF evict THEN Tail(st) ELSE st,
            stats |-> IF evict THEN [s EXCEPT !.evictions = @ + 1] ELSE s,
            local |-> NoLocal]
      [] op.op = "delete" ->
           \* key in self._store
           [store |-> st, stats |-> s, local |-> [NoLocal EXCEPT !.present = (i # 0)]]
      [] op.op = "clear" ->
           [store |-> <<>>, stats |-> s, local |-> NoLocal]
      [] op.op = "stats" ->
           \* total_gets and hit_rate
           [store |-> st, stats |-> s,
            local |-> [NoLocal EXCEPT !.hits = s.hits, !.total_gets = s.hits + s.misses]]
      [] op.op = "cleanup" ->
           \* expired_keys = [...]
           LET expired(e) == is_expired(e, t)
               es == SelectSeq(st, expired)
           IN  [store |-> st, stats |-> s,
                local |-> [NoLocal EXCEPT !.keys = [j \in 1..Len(es) |-> es[j].key]]]

\* the rest of the method body, up to the release of the lock: what it does to
\* the store and counters, and what the call returns
body_rest(op, local, st, s, maxsz) ==
    CASE op.op = "get" ->
           IF ~local.present
           THEN [store |-> st, stats |-> [s EXCEPT !.misses = @ + 1], ret |-> NoRet]
           ELSE IF local.expired
           THEN [store |-> DelKey(st, op.key),
                 stats |-> [s EXCEPT !.misses = @ + 1, !.evictions = @ + 1], ret |-> NoRet]
           ELSE [store |-> st, stats |-> [s EXCEPT !.hits = @ + 1],
                 ret |-> [NoRet EXCEPT !.val = local.value]]
      [] op.op = "exists" ->
           IF ~local.present
           THEN [store |-> st, stats |-> s, ret |-> [NoRet EXCEPT !.val = "False"]]
           ELSE IF local.expired
           THEN [store |-> DelKey(st, op.key), stats |-> [s EXCEPT !.evictions = @ + 1],
                 ret |-> [NoRet EXCEPT !.val = "False"]]
           ELSE [store |-> st, stats |-> s, ret |-> [NoRet EXCEPT !.val = "True"]]
      [] op.op = "set" ->
           \* self._store[key] = CacheEntry(...); sets += 1
           LET entry == [key |-> op.key, value |-> op.value, expires_at |-> op.expires_at]
               i == KeyIndex(st, op.key)
           IN  [store |-> IF i = 0 THEN Append(st, entry) ELSE [st EXCEPT ![i] = entry],
                stats |-> [s EXCEPT !.sets = @ + 1], ret |-> NoRet]
      [] op.op = "delete" ->
           IF local.present
           THEN [store |-> DelKey(st, op.key), stats |-> [s EXCEPT !.deletes = @ + 1],
                 ret |-> [NoRet EXCEPT !.val = "True"]]
           ELSE [store |-> st, stats |-> s, ret |-> [NoRet EXCEPT !.val = "False"]]
      [] op.op = "clear" ->
           [store |-> st, stats |-> s, ret |-> NoRet]
      [] op.op = "stats" ->
           [store |-> st, stats |-> s,
            ret |-> [NoRet EXCEPT !.nums = StatsNums(st, s, maxsz, local.hits, local.total_gets)]]
      [] op.op = "cleanup" ->
           \* for key in expired_keys: del ...; evictions += 1
           [store |-> DelKeys(st, local.keys),
            stats |-> [s EXCEPT !.evictions = @ + Len(local.keys)], ret |-> NoRet]

\* the whole call, made with no other caller about
sequential_call(op, st, s, t, dflt, maxsz) ==
    CASE op.op = "get" ->
           LET r == cache_get(st, s, op.key, t) IN
           [store |-> r.store, stats |-> r.stats, ret |-> [NoRet EXCEPT !.val = r.value]]
      [] op.op = "exists" ->
           LET r == cache_exists(st, s, op.key, t) IN
           [store |-> r.store, stats |-> r.stats, ret |-> [NoRet EXCEPT !.val = BoolStr(r.ret)]]
      [] op.op = "set" ->
           \* expires_at is computed from the time of the call (memory.py:137)
           LET r == cache_set(st, s, op.key, op.value, op.ttlArg, op.at, dflt, maxsz) IN
           [store |-> r.store, stats |-> r.stats, ret |-> NoRet]
      [] op.op = "delete" ->
           LET r == cache_delete(st, s, op.key) IN
           [store |-> r.store, stats |-> r.stats, ret |-> [NoRet EXCEPT !.val = BoolStr(r.ret)]]
      [] op.op = "clear" ->
           [store |-> <<>>, stats |-> s, ret |-> NoRet]
      [] op.op = "stats" ->
           [store |-> st, stats |-> s,
            ret |-> [NoRet EXCEPT !.nums = StatsNums(st, s, maxsz, s.hits, s.hits + s.misses)]]
      [] op.op = "cleanup" ->
           LET r == cache_cleanup_expired(st, s, t) IN
           [store |-> r.store, stats |-> r.stats, ret |-> NoRet]

ConcIdle ==
    /\ locked = FALSE
    /\ cpc = [p \in Procs |-> "idle"]
    /\ cop = [p \in Procs |-> NoOp]
    /\ clocal = [p \in Procs |-> NoLocal]
    /\ cret = [p \in Procs |-> [ret |-> NoRet, seq_ret |-> NoRet]]
    /\ seq_store = <<>>
    /\ seq_stats = [hits |-> 0, misses |-> 0, sets |-> 0, deletes |-> 0, evictions |-> 0]
    /\ nConc = 0

ConcCacheInit ==
    /\ store = <<>>
    /\ stats = [hits |-> 0, misses |-> 0, sets |-> 0, deletes |-> 0, evictions |-> 0]
    /\ max_size \in ConcMaxSizes
    /\ default_ttl = 1
    /\ now = 0
    /\ lastOp = [op |-> "init", key |-> "-", ret |-> None, at |-> 0]
    /\ nOps = 0
    /\ lastSet = [k \in CacheKeys |-> NoSet]
    /\ insOrder = <<>>
    /\ getLog = [value |-> 0, absent |-> 0]
    /\ lastStats = <<>>
    /\ SweepIdle

concFrame == <<max_size, default_ttl, lastOp, nOps, lastSet, insOrder, getLog, lastStats,
              sweepVars, aggVars, svcVars, fnVars>>

\* a caller calls a method of the cache (the sweep: _cleanup_expired); set
\* computes expires_at before it asks for the lock
conc_call ==
    \E p \in Procs, c \in ConcCalls :
        LET call == IF p = SWEEP THEN [NoOp EXCEPT !.op = "cleanup"] ELSE c
            ttl == IF call.ttlArg # <<>> THEN call.ttlArg[1] ELSE default_ttl
        IN  /\ cpc[p] = "idle"
            /\ nConc < MaxConcOps
            /\ nConc' = nConc + 1
            /\ cop' = [cop EXCEPT ![p] =
                         [call EXCEPT !.at = IF call.op = "set" THEN now ELSE 0,
                                      !.expires_at = IF call.op = "set" /\ ttl > 0
                                                     THEN <<now + ttl>> ELSE <<>>]]
            /\ cpc' = [cpc EXCEPT ![p] = "waiting"]
            /\ UNCHANGED <<store, stats, now, locked, clocal, cret, seq_store, seq_stats, concFrame>>

\* async with self._lock: a waiting caller gets the lock and runs the first
\* statements of the body
conc_enter ==
    \E p \in Procs :
        LET b == body_first(cop[p], store, stats, now, max_size)
            q == sequential_call(cop[p], seq_store, seq_stats, now, default_ttl, max_size)
        IN  /\ cpc[p] = "waiting"
            /\ acquire_enabled(locked)
            /\ locked' = TRUE
            /\ store' = b.store
            /\ stats' = b.stats
            /\ clocal' = [clocal EXCEPT ![p] = b.local]
            /\ seq_store' = q.store
            /\ seq_stats' = q.stats
            /\ cop' = [cop EXCEPT ![p].seq_ret = q.ret]
            /\ cpc' = [cpc EXCEPT ![p] = "inside"]
            /\ UNCHANGED <<now, cret, nConc, concFrame>>

\* the caller runs the rest of the body, releases the lock and returns
conc_leave ==
    \E p \in Procs :
        LET b == body_rest(cop[p], clocal[p], store, stats, max_size) IN
        /\ cpc[p] = "inside"
        /\ locked' = FALSE
        /\ store' = b.store
        /\ stats' = b.stats
        /\ cret' = [cret EXCEPT ![p] = [ret |-> b.ret, seq_ret |-> cop[p].seq_ret]]
        /\ cpc' = [cpc EXCEPT ![p] = "idle"]
        /\ cop' = [cop EXCEPT ![p] = NoOp]
        /\ clocal' = [clocal EXCEPT ![p] = NoLocal]
        /\ UNCHANGED <<now, seq_store, seq_stats, nConc, concFrame>>

conc_tick ==
    /\ now < MaxTime
    /\ now' = now + 1
    /\ UNCHANGED <<store, stats, concVars, concFrame>>

ConcNext == conc_call \/ conc_enter \/ conc_leave \/ conc_tick

ConcSpecInit == ConcCacheInit /\ AggIdle /\ SvcIdle /\ ConcIdle /\ FnIdle

SpecConc == ConcSpecInit /\ [][ConcNext]_vars

----------------------------------------------------------------------------
(* Functions of GitHubClient checked on their own: the arguments are drawn *)
(* by the initial state and one action makes the call.  A string is the    *)
(* sequence of its parts, "/" being a part of its own; a path is written   *)
(* as the sequence of its segments and joined with "/".                    *)

\* the most segments of a source, an identifier or a path
MaxSegments == 3

\* everything but the function's arguments and result
nonFnVars == <<cacheVars, sweepVars, aggVars, svcVars, concVars>>

AllIdle == CacheIdle /\ AggIdle /\ SvcIdle /\ ConcIdle

----------------------------------------------------------------------------
(* The lifecycle of the cleanup task under callers that share one cache.   *)
(* start has no await and runs in one step.  stop cancels the task and     *)
(* suspends in `await self._cleanup_task`; it goes on, to                  *)
(* `self._cleanup_task = None`, in a later step, once the event loop has   *)
(* run the cancelled task to its end.                                      *)

\* how many start and stop calls are followed
MaxLifecycleCalls == 5

\* the cache's store plays no part: it is empty
LifecycleInit ==
    /\ store = <<>>
    /\ stats = [hits |-> 0, misses |-> 0, sets |-> 0, deletes |-> 0, evictions |-> 0]
    /\ max_size = 0
    /\ default_ttl = 1
    /\ now = 0
    /\ lastOp = [op |-> "init", key |-> "-", ret |-> None, at |-> 0]
    /\ nOps = 0
    /\ lastSet = [k \in CacheKeys |-> NoSet]
    /\ insOrder = <<>>
    /\ getLog = [value |-> 0, absent |-> 0]
    /\ lastStats = <<>>
    /\ cleanup_task = <<>>
    /\ cleanup_interval \in CleanupIntervals
    /\ sweepLog = NoSweep
    /\ sweep_tasks = <<>>
    /\ stopping = <<>>

\* the callers that are suspended in stop
Suspended == {stopping[i].caller : i \in 1..Len(stopping)}

\* asyncio.create_task(self._cleanup_loop()): the task first sleeps
create_task(tasks_, t, interval) ==
    Append(tasks_, [state |-> "asleep", wake_at |-> t + interval])

\* Task.cancel(): a task that is not done gets CancelledError thrown into it
\* the next time the event loop runs it
task_cancel(tasks_, i) ==
    IF tasks_[i].state = "done" THEN tasks_ ELSE [tasks_ EXCEPT ![i].state = "cancelled"]

lifecycleFrame == <<store, stats, max_size, default_ttl, now, lastSet, insOrder, getLog,
                    lastStats, cleanup_interval, aggVars, svcVars, concVars, fnVars>>

\* InMemoryCache.start
lc_start(p) ==
    /\ p \notin Suspended
    /\ nOps < MaxLifecycleCalls
    /\ IF cleanup_task = <<>>
       THEN /\ sweep_tasks' = create_task(sweep_tasks, now, cleanup_interval)
            /\ cleanup_task' = <<Len(sweep_tasks')>>
       ELSE UNCHANGED <<sweep_tasks, cleanup_task>>
    /\ lastOp' = [op |-> "start", key |-> p, ret |-> None, at |-> now]
    /\ nOps' = nOps + 1
    /\ UNCHANGED <<stopping, sweepLog, lifecycleFrame>>

\* InMemoryCache.stop, up to its await.  With no task the call returns at
\* once; awaiting a task that is done already does not suspend the caller.
lc_stop(p) ==
    /\ p \notin Suspended
    /\ nOps < MaxLifecycleCalls
    /\ nOps' = nOps + 1
    /\ IF cleanup_task = <<>>
       THEN /\ lastOp' = [op |-> "stop", key |-> p, ret |-> None, at |-> now]
            /\ UNCHANGED <<sweep_tasks, cleanup_task, stopping>>
       ELSE LET i == cleanup_task[1] IN
            IF sweep_tasks[i].state = "done"
            THEN /\ cleanup_task' = <<>>
                 /\ lastOp' = [op |-> "stop", key |-> p, ret |-> None, at |-> now]
                 /\ UNCHANGED <<sweep_tasks, stopping>>
            ELSE /\ sweep_tasks' = task_cancel(sweep_tasks, i)
                 /\ stopping' = Append(stopping, [caller |-> p, task |-> i])
                 /\ UNCHANGED <<cleanup_task, lastOp>>
    /\ UNCHANGED <<sweepLog, lifecycleFrame>>

\* the event loop runs a cancelled task: CancelledError ends _cleanup_loop
lc_task_cancelled(i) ==
    /\ sweep_tasks[i].state = "cancelled"
    /\ sweep_tasks' = [sweep_tasks EXCEPT ![i].state = "done"]
    /\ UNCHANGED <<cleanup_task, stopping, sweepLog, lastOp, nOps, lifecycleFrame>>

\* InMemoryCache.stop, after its await: the awaited task is done, and the
\* callers that awaited it are resumed in the order they suspended
lc_stop_resume(k) ==
    /\ sweep_tasks[stopping[k].task].state = "done"
    /\ \A j \in 1..(k - 1) : stopping[j].task # stopping[k].task
    /\ cleanup_task' = <<>>
    /\ stopping' = RemoveAt(stopping, k)
    /\ lastOp' = [op |-> "stop", key |-> stopping[k].caller, ret |-> None, at |-> now]
    /\ UNCHANGED <<sweep_tasks, sweepLog, nOps, lifecycleFrame>>

\* InMemoryCache._cleanup_loop, one turn of the loop of the task at position
\* i: its sleep is over, it runs _cleanup_expired and sleeps again
lc_cleanup_loop(i) ==
    /\ sweep_tasks[i].state = "asleep"
    /\ now >= sweep_tasks[i].wake_at
    /\ LET r == cache_cleanup_expired(store, stats, now) IN
        /\ store' = r.store
        /\ stats' = r.stats
        /\ insOrder' = InsertionOrder(insOrder, store, r.store)
        /\ sweepLog' = [runs |-> sweepLog.runs + 1,
                        removed |-> Len(store) - Len(r.store),
                        at |-> now]
    /\ sweep_tasks' = [sweep_tasks EXCEPT ![i].wake_at = now + cleanup_interval]
    /\ UNCHANGED <<cleanup_task, stopping, lastOp, nOps, max_size, default_ttl, now, lastSet,
                   getLog, lastStats, cleanup_interval, aggVars, svcVars, concVars, fnVars>>

LifecycleNext ==
    \/ \E p \in Callers : lc_start(p)
    \/ \E p \in Callers : lc_stop(p)
    \/ \E i \in 1..Len(sweep_tasks) : lc_task_cancelled(i)
    \/ \E k \in 1..Len(stopping) : lc_stop_resume(k)
    \/ \E i \in 1..Len(sweep_tasks) : lc_cleanup_loop(i)
    \/ Tick

LifecycleSpecInit == LifecycleInit /\ AggIdle /\ SvcIdle /\ ConcIdle /\ FnIdle

SpecLifecycle == LifecycleSpecInit /\ [][LifecycleNext]_vars


\* "/".join(segments)
RECURSIVE join(_)
join(segments) ==
    IF segments = <<>> THEN <<>>
    ELSE IF Len(segments) = 1 THEN <<segments[1]>>
    ELSE <<segments[1], "/">> \o join(Tail(segments))

HTTPS == <<"https:", "/", "/">>

\* GitHubClient.get_github_url; repo_info is self._repo_cache.get(source)
get_github_url(repo_info, source, skill_id) ==
    LET branch == IF repo_info # <<>> THEN repo_info[1].branch ELSE "main" IN
    HTTPS \o <<"github.com", "/">> \o source \o <<"/", "tree", "/", branch, "/", "skills", "/">>
          \o skill_id

\* GitHubClient.get_skills_sh_url
get_skills_sh_url(source, skill_id) ==
    HTTPS \o <<"skills.sh", "/">> \o source \o <<"/">> \o skill_id

SegmentNames == {"a", "b"}

\* the sources: empty, or owner/repo
UrlSources == {<<>>} \cup {join(<<o, r>>) : o, r \in SegmentNames}
\* the identifiers: empty, single-segment or multi-segment
UrlSkillIds == {join(segs) : segs \in SeqsUpTo(SegmentNames, MaxSegments)}
\* what _repo_cache holds for the source: nothing or None, or a tree with its branch
UrlRepoInfos == {<<>>, <<[branch |-> "dev"]>>}

UrlInit ==
    /\ fn_in \in [source : UrlSources, skill_id : UrlSkillIds, repo_info : UrlRepoInfos]
    /\ fn_out = <<>>

\* _build_skill asks both builders for the refs of a skill (service.py:180-189)
build_refs ==
    /\ fn_out = <<>>
    /\ fn_out' = <<[github |-> get_github_url(fn_in.repo_info, fn_in.source, fn_in.skill_id),
                    skills_sh |-> get_skills_sh_url(fn_in.source, fn_in.skill_id)]>>
    /\ UNCHANGED <<fn_in, nonFnVars>>

UrlNext == build_refs

UrlSpecInit == AllIdle /\ UrlInit

SpecUrl == UrlSpecInit /\ [][UrlNext]_vars

----------------------------------------------------------------------------
(* The content resolver, GitHubClient._find_skill_path, on paths.  A name  *)
(* (an identifier, a folder) is the sequence of its words and separators;  *)
(* no word is the beginning or the end of another, so that startswith and  *)
(* endswith on strings are prefix and suffix on these sequences.  A path   *)
(* is the sequence of its segments; skill_paths is the dict in its order.  *)

\* the most SKILL.md paths of a tree
MaxPaths == 2

SKILL_MD == <<"SKILL.md">>

\* len() of a word or separator
PartLen(w) ==
    CASE w \in {"-", "_", "."} -> 1
      [] w = "abc" -> 3
      [] w = "gptq" -> 4
      [] w = "react" -> 5
      [] w \in {"vercel", "openai", "claude", "skills"} -> 6
      [] w = "SKILL.md" -> 8
      [] w = "anthropic" -> 9
      [] OTHER -> 2

\* len() of a name
RECURSIVE StrLen(_)
StrLen(name) == IF name = <<>> THEN 0 ELSE PartLen(Head(name)) + StrLen(Tail(name))

\* str.startswith, str.endswith
startswith(name, prefix) ==
    Len(prefix) <= Len(name) /\ SubSeq(name, 1, Len(prefix)) = prefix
endswith(name, suffix) ==
    Len(suffix) <= Len(name) /\ SubSeq(name, Len(name) - Len(suffix) + 1, Len(name)) = suffix

\* prefixes_to_strip
prefixes_to_strip == <<<<"vercel", "-">>, <<"anthropic", "-">>, <<"openai", "-">>, <<"claude", "-">>>>

\* id_variants: the identifier, then the identifier without each prefix it has
id_variants(skill_id) ==
    LET has(pre) == startswith(skill_id, pre)
        stripped == SelectSeq(prefixes_to_strip, has)
    IN  <<skill_id>> \o
        [k \in 1..Len(stripped) |-> SubSeq(skill_id, Len(stripped[k]) + 1, Len(skill_id))]

\* priority_patterns of one variant, in the listed order
priority_patterns(variant_id) ==
    << <<<<"skills">>, variant_id, SKILL_MD>>,
       <<<<".", "claude">>, <<"skills">>, variant_id, SKILL_MD>>,
       <<<<".", "cursor">>, <<"skills">>, variant_id, SKILL_MD>>,
       <<<<".", "github">>, <<"skills">>, variant_id, SKILL_MD>>,
       <<<<".", "agent">>, <<"skills">>, variant_id, SKILL_MD>>,
       <<<<".", "agents">>, <<"skills">>, variant_id, SKILL_MD>>,
       <<variant_id, SKILL_MD>> >>

\* the elements of a sequence
Range(seq) == {seq[i] : i \in 1..Len(seq)}

\* the first element of a sequence that is among those passing a test, if any
FirstThat(seq, passing) ==
    IF \E i \in 1..Len(seq) : seq[i] \in passing
    THEN <<seq[CHOOSE i \in 1..Len(seq) :
                  seq[i] \in passing /\ \A j \in 1..(i - 1) : seq[j] \notin passing]>>
    ELSE <<>>

\* the concatenation of a sequence of sequences
RECURSIVE Flatten(_)
Flatten(seqs) == IF seqs = <<>> THEN <<>> ELSE Head(seqs) \o Flatten(Tail(seqs))

InPaths(skill_paths, path) == \E i \in 1..Len(skill_paths) : skill_paths[i] = path

\* the loop over the variants and their priority patterns (github.py:218-232)
match_priority(skill_paths, skill_id) ==
    LET variants == id_variants(skill_id)
        patterns == Flatten([k \in 1..Len(variants) |-> priority_patterns(variants[k])])
        present(pattern) == InPaths(skill_paths, pattern)
    IN  FirstThat(patterns, {pattern \in Range(patterns) : present(pattern)})

\* per variant, the first path that has the variant as a part (github.py:234-239)
match_fuzzy(skill_paths, skill_id) ==
    LET variants == id_variants(skill_id)
        found(variant_id) ==
            LET has(path) == \E k \in 1..Len(path) : path[k] = variant_id
            IN  FirstThat(skill_paths, {path \in Range(skill_paths) : has(path)})
        any(variant_id) == found(variant_id) # <<>>
        first == FirstThat(variants, {variant_id \in Range(variants) : any(variant_id)})
    IN  IF first = <<>> THEN <<>> ELSE found(first[1])

\* the first path with a part longer than 5 that the identifier ends with
\* (github.py:241-246)
match_suffix(skill_paths, skill_id) ==
    LET has(path) == \E k \in 1..Len(path) : endswith(skill_id, path[k]) /\ StrLen(path[k]) > 5
    IN  FirstThat(skill_paths, {path \in Range(skill_paths) : has(path)})

\* per variant of 4 characters or more, the first path whose folder ends with
\* "-" or "_" and the variant (github.py:248-259)
match_contains(skill_paths, skill_id) ==
    LET variants == id_variants(skill_id)
        found(variant_id) ==
            LET has(path) ==
                    /\ Len(path) >= 2
                    /\ \/ endswith(path[Len(path) - 1], <<"-">> \o variant_id)
                       \/ endswith(path[Len(path) - 1], <<"_">> \o variant_id)
            IN  IF StrLen(variant_id) >= 4 THEN FirstThat(skill_paths, {path \in Range(skill_paths) : has(path)}) ELSE <<>>
        any(variant_id) == found(variant_id) # <<>>
        first == FirstThat(variants, {variant_id \in Range(variants) : any(variant_id)})
    IN  IF first = <<>> THEN <<>> ELSE found(first[1])

\* the last resort (github.py:261-263)
match_only_document(skill_paths) == IF Len(skill_paths) = 1 THEN <<skill_paths[1]>> ELSE <<>>

\* GitHubClient._find_skill_path
find_skill_path_exact_only(skill_paths, skill_id) ==
    LET present(pattern) == InPaths(skill_paths, pattern)
    IN  FirstThat(priority_patterns(skill_id),
                  {pattern \in Range(priority_patterns(skill_id)) : present(pattern)})
find_skill_path_in_tree(skill_paths, skill_id) ==
    IF match_priority(skill_paths, skill_id) # <<>> THEN match_priority(skill_paths, skill_id)
    ELSE IF match_fuzzy(skill_paths, skill_id) # <<>> THEN match_fuzzy(skill_paths, skill_id)
    ELSE IF match_suffix(skill_paths, skill_id) # <<>> THEN match_suffix(skill_paths, skill_id)
    ELSE IF match_contains(skill_paths, skill_id) # <<>> THEN match_contains(skill_paths, skill_id)
    ELSE match_only_document(skill_paths)

\* the identifiers asked for: a word, a vendor prefix and a word, two words
ResolverWords == {"react", "gptq", "abc", "skills"}
ResolverIds ==
    {<<w>> : w \in ResolverWords}
    \cup {prefixes_to_strip[k] \o <<w>> : k \in 1..4, w \in {"react", "gptq"}}
    \cup {<<"abc", "-", "skills">>, <<"react", "-", "gptq">>}

\* the folders of a tree, and where they lie
ResolverFolders ==
    {<<w>> : w \in {"react", "gptq", "abc"}}
    \cup {<<"abc", "-", "gptq">>, <<"abc", "_", "react">>, <<"vercel", "-", "react">>,
          <<"react", "-", "abc", "-", "skills">>}
ResolverPaths ==
    {<<<<"skills">>, f, SKILL_MD>> : f \in ResolverFolders}
    \cup {<<f, SKILL_MD>> : f \in ResolverFolders}
    \cup {<<<<".", "claude">>, <<"skills">>, f, SKILL_MD>> : f \in {<<"react">>, <<"gptq">>}}
    \cup {<<<<"react">>, <<"abc">>, SKILL_MD>>, <<SKILL_MD>>}

\* the dicts of up to n distinct paths, in every order
PathLists(n) ==
    {ps \in SeqsUpTo(ResolverPaths, n) : \A i, j \in 1..Len(ps) : i # j => ps[i] # ps[j]}

ResolverInit ==
    /\ fn_in \in [skill_paths : PathLists(MaxPaths), skill_id : ResolverIds]
    /\ fn_out = <<>>

\* fetch_skill resolves the identifier in the tree (github.py:358)
find_skill_path_call ==
    /\ fn_out = <<>>
    /\ fn_out' = <<find_skill_path_in_tree(fn_in.skill_paths, fn_in.skill_id)>>
    /\ UNCHANGED <<fn_in, nonFnVars>>

ResolverNext == find_skill_path_call

ResolverSpecInit == AllIdle /\ ResolverInit

SpecResolver == ResolverSpecInit /\ [][ResolverNext]_vars

----------------------------------------------------------------------------
(* Reference discovery, GitHubClient._find_reference_files.  A path is the *)
(* string of the tree: its segments joined with "/"; a file name is one    *)
(* piece, with its own ending and its own upper-case form.                 *)

\* the most blobs of a tree
MaxTreeFiles == 3

REFERENCE_DIRS == <<"references", "resources", "docs", "examples", "rules">>

RefFileNames == {"SKILL.md", "skill.md", "guide.md", "notes.txt"}

\* str.upper of a piece
upper(piece) ==
    CASE piece \in {"SKILL.md", "skill.md"} -> "SKILL.MD"
      [] piece = "guide.md" -> "GUIDE.MD"
      [] piece = "notes.txt" -> "NOTES.TXT"
      [] piece = "references" -> "REFERENCES"
      [] piece = "rules" -> "RULES"
      [] piece = "other" -> "OTHER"
      [] piece = "deep" -> "DEEP"
      [] piece = "foo" -> "FOO"
      [] OTHER -> piece

\* path.endswith(".md")
endswith_md(path) == path # <<>> /\ path[Len(path)] \in {"SKILL.md", "skill.md", "guide.md"}

\* the (name, path) pairs of the paths kept by a test, in the order of the
\* dict, after the pairs found before; a path already seen is skipped
RECURSIVE collect(_, _, _)
collect(paths, kept, found) ==
    IF paths = <<>> THEN found
    ELSE LET path == Head(paths)
             seen == {found[k].path : k \in 1..Len(found)}
         IN  collect(Tail(paths), kept,
                     IF path \in kept /\ path \notin seen
                     THEN Append(found, [name |-> path[Len(path)], path |-> path])
                     ELSE found)

\* the loop over the sibling files (github.py:284-293)
sibling_files(all_paths, skill_dir) ==
    LET skill_dir_prefix == IF skill_dir # <<>> THEN skill_dir \o <<"/">> ELSE <<>>
        keep(path) ==
            /\ startswith(path, skill_dir_prefix)
            /\ endswith_md(path)
            /\ LET remaining == SubSeq(path, Len(skill_dir_prefix) + 1, Len(path))
               IN  /\ \A k \in 1..Len(remaining) : remaining[k] # "/"
                   /\ [k \in 1..Len(remaining) |-> upper(remaining[k])] # <<"SKILL.MD">>
    IN  collect(all_paths, {path \in Range(all_paths) : keep(path)}, <<>>)

\* the loop over the reference subdirectories from the n-th on (github.py:296-304)
RECURSIVE subdirectory_files(_, _, _, _)
subdirectory_files(all_paths, skill_dir, n, found) ==
    IF n > Len(REFERENCE_DIRS) THEN found
    ELSE LET prefix == skill_dir \o <<"/", REFERENCE_DIRS[n], "/">>
             keep(path) == startswith(path, prefix) /\ endswith_md(path)
         IN  subdirectory_files(all_paths, skill_dir, n + 1, collect(all_paths, {path \in Range(all_paths) : keep(path)}, found))

\* GitHubClient._find_reference_files
find_reference_files(all_paths, skill_dir) ==
    subdirectory_files(all_paths, skill_dir, 1, sibling_files(all_paths, skill_dir))

\* the skill directories, and the blobs a tree may hold, as segments
RefSkillDirs == {<<>>, <<"foo">>}
RefBlobs ==
    {d \o rest : d \in RefSkillDirs,
                 rest \in {<<n>> : n \in RefFileNames}
                          \cup {<<"references", "guide.md">>, <<"rules", "guide.md">>,
                                <<"other", "guide.md">>, <<"references", "deep", "guide.md">>}}

\* the trees of up to n blobs, in every order, that hold the skill document
RefTrees(n, dir) ==
    {[k \in 1..Len(t) |-> join(t[k])] : t \in
        {t \in SeqsUpTo(RefBlobs, n) :
            /\ \A i, j \in 1..Len(t) : i # j => t[i] # t[j]
            /\ \E i \in 1..Len(t) : t[i] = dir \o <<"SKILL.md">>}}

RefInit ==
    /\ \E dir \in RefSkillDirs :
          fn_in \in [all_paths : RefTrees(MaxTreeFiles, dir), skill_dir : {join(dir)}]
    /\ fn_out = <<>>

\* fetch_skill looks for the references of the skill (github.py:384)
find_reference_files_call ==
    /\ fn_out = <<>>
    /\ fn_out' = <<find_reference_files(fn_in.all_paths, fn_in.skill_dir)>>
    /\ UNCHANGED <<fn_in, nonFnVars>>

RefNext == find_reference_files_call

RefSpecInit == AllIdle /\ RefInit

SpecRefs == RefSpecInit /\ [][RefNext]_vars

----------------------------------------------------------------------------
(* The end of GitHubClient.fetch_skill, after the skill document has been  *)
(* retrieved: the references are looked for and their bodies requested,    *)
(* all at once, only when the caller asked for them (github.py:381-409).   *)
(* fn_out holds the progress of the call: the requests in flight, the      *)
(* ReferenceFile of each answered request, and the FetchResult.            *)

FetchRefsInit ==
    /\ \E dir \in RefSkillDirs :
          fn_in \in [all_paths : RefTrees(MaxTreeFiles, dir), skill_dir : {join(dir)},
                     include_references : BOOLEAN]
    /\ fn_out = <<>>

NoFetchResult == [content |-> "None", error |-> "None", references |-> <<>>]

\* the references of the FetchResult: the ReferenceFile of every request
returned_references_fetched_only(ref_files, answers) ==
    LET got(k) == answers[k] # "None"
        kept == SelectSeq([k \in 1..Len(ref_files) |-> k], got)
    IN  [j \in 1..Len(kept) |->
            [name |-> ref_files[kept[j]].name, path |-> ref_files[kept[j]].path,
             content |-> answers[kept[j]]]]
returned_references(ref_files, answers) ==
    [k \in 1..Len(ref_files) |->
        [name |-> ref_files[k].name, path |-> ref_files[k].path, content |-> answers[k]]]

\* references = []; if include_references: the requests of gather are created
fetch_skill_references ==
    /\ fn_out = <<>>
    /\ "include_references" \in DOMAIN fn_in
    /\ LET ref_files == IF fn_in.include_references
                        THEN find_reference_files(fn_in.all_paths, fn_in.skill_dir)
                        ELSE <<>>
       IN  fn_out' = <<[pc |-> "gather", ref_files |-> ref_files,
                        answers |-> [k \in 1..Len(ref_files) |-> "pending"],
                        requests |-> Len(ref_files), result |-> NoFetchResult]>>
    /\ UNCHANGED <<fn_in, nonFnVars>>

\* _fetch_raw_content of one reference answers: the body, or None for a
\* status other than 200 and for any exception (github.py:308-319)
fetch_ref_response ==
    /\ fn_out # <<>>
    /\ fn_out[1].pc = "gather"
    /\ \E k \in 1..Len(fn_out[1].answers) : \E body \in {"body", "None"} :
          /\ fn_out[1].answers[k] = "pending"
          /\ fn_out' = <<[fn_out[1] EXCEPT !.answers[k] = body]>>
    /\ UNCHANGED <<fn_in, nonFnVars>>

\* return FetchResult(content=content, ..., references=list(references))
fetch_skill_return ==
    /\ fn_out # <<>>
    /\ fn_out[1].pc = "gather"
    /\ \A k \in 1..Len(fn_out[1].answers) : fn_out[1].answers[k] # "pending"
    /\ fn_out' = <<[fn_out[1] EXCEPT
                      !.pc = "returned",
                      !.result = [content |-> "document", error |-> "None",
                                  references |->
                                      returned_references(fn_out[1].ref_files,
                                                          fn_out[1].answers)]]>>
    /\ UNCHANGED <<fn_in, nonFnVars>>

FetchRefsNext == fetch_skill_references \/ fetch_ref_response \/ fetch_skill_return

FetchRefsSpecInit == AllIdle /\ FetchRefsInit

SpecFetchRefs == FetchRefsSpecInit /\ [][FetchRefsNext]_vars

----------------------------------------------------------------------------
(* The ranker, RelevanceRanker.  A text is the sequence of its pieces:     *)
(* words, and the separators " ", "-", "_" and "/"; two words are never    *)
(* adjacent.  A query-match fraction is counted in 600ths, a score         *)
(* before rounding in 300ths of a point, a relevance_score in 100ths.      *)

\* the most skills ranked at once
MaxSkills == 3

CONTENT_WEIGHT == 40
REFERENCES_WEIGHT == 15
QUERY_MATCH_WEIGHT == 30
POPULARITY_WEIGHT == 15
CURATED_BOOST == 8
CURATED_REGISTRY == "skyll"

\* str.lower of a piece
lower_piece(piece) ==
    CASE piece = "React" -> "react"
      [] piece = "GPT" -> "gpt"
      [] OTHER -> piece

text_lower(text) == [k \in 1..Len(text) |-> lower_piece(text[k])]

\* RelevanceRanker._normalize
normalize(text) ==
    [k \in 1..Len(text) |-> IF lower_piece(text[k]) \in {"-", "_", "/"} THEN " " ELSE lower_piece(text[k])]

\* str.strip
RECURSIVE strip(_)
strip(text) ==
    IF text = <<>> THEN <<>>
    ELSE IF Head(text) = " " THEN strip(Tail(text))
    ELSE IF text[Len(text)] = " " THEN strip(SubSeq(text, 1, Len(text) - 1))
    ELSE text

\* str.split: the runs of pieces between white space
RECURSIVE split_words(_)
split_words(text) ==
    LET t == strip(text) IN
    IF t = <<>> THEN <<>>
    ELSE IF \A k \in 1..Len(t) : t[k] # " " THEN <<t>>
    ELSE LET k == CHOOSE k \in 1..Len(t) : t[k] = " " /\ \A j \in 1..(k - 1) : t[j] # " "
         IN  <<SubSeq(t, 1, k - 1)>> \o split_words(SubSeq(t, k + 1, Len(t)))

\* RelevanceRanker._to_words
to_words(text) == Range(split_words(normalize(text)))

\* RelevanceRanker._word_match_count, RelevanceRanker._all_terms_in
word_match_count(terms, word_set) == Cardinality({k \in 1..Len(terms) : terms[k] \in word_set})
all_terms_in(terms, word_set) == \A k \in 1..Len(terms) : terms[k] \in word_set

\* len() of a piece of a content
piece_len(piece) ==
    CASE piece = "filler2000" -> 2000
      [] piece \in {" ", "-", "_", "/"} -> 1
      [] OTHER -> 5

\* text[:n]; a word cut in two leaves a piece that is no word of a query
RECURSIVE take(_, _)
take(text, n) ==
    IF text = <<>> \/ n <= 0 THEN <<>>
    ELSE IF piece_len(Head(text)) <= n
         THEN <<Head(text)>> \o take(Tail(text), n - piece_len(Head(text)))
         ELSE <<"cut">>

\* the truth value of an optional string: neither None nor ""
truthy(optional_text) == optional_text # <<>> /\ optional_text[1] # <<>>

\* RelevanceRanker._compute_query_match, in 600ths
compute_query_match(skill, query) ==
    IF query = <<>> THEN 0
    ELSE
    LET query_terms == split_words(text_lower(query))
        query_words == Range(query_terms)
        id_words == to_words(skill.id)
        title_words == to_words(skill.title)
        desc_words == to_words(IF skill.description = <<>> THEN <<>> ELSE skill.description[1])
        skill_id_normalized == normalize(skill.id)
        query_normalized == strip(text_lower(query))
        n == Len(query_terms)
        matching_in_id_title == word_match_count(query_terms, id_words \cup title_words)
        matching_in_desc == word_match_count(query_terms, desc_words)
        after_id_title ==
            IF matching_in_id_title = n THEN 450
            ELSE IF matching_in_id_title > 0
            THEN LET id_title_score == (300 * matching_in_id_title) \div n
                     desc_boost == IF desc_words # {} /\ matching_in_desc > 0
                                   THEN (120 * matching_in_desc) \div n ELSE 0
                 IN  Min(id_title_score + desc_boost, 420)
            ELSE 0
        after_desc ==
            IF desc_words = {} THEN after_id_title
            ELSE IF matching_in_desc = n THEN Max(after_id_title, 420)
            ELSE IF matching_in_desc > 0
            THEN Max(after_id_title, (210 * matching_in_desc) \div n)
            ELSE after_id_title
        best_score ==
            IF truthy(skill.content) /\ after_desc < 90
            THEN LET content_words == to_words(take(skill.content[1], 2000))
                     matching_in_content == word_match_count(query_terms, content_words)
                 IN  IF matching_in_content > 0
                     THEN Max(after_desc, (90 * matching_in_content) \div n)
                     ELSE after_desc
            ELSE after_desc
    IN  IF query_normalized = skill_id_normalized \/ query_normalized = text_lower(skill.id)
        THEN 600
        ELSE IF all_terms_in(query_terms, id_words) THEN 540
        ELSE IF id_words \subseteq query_words THEN 510
        ELSE IF title_words # {} /\ all_terms_in(query_terms, title_words) THEN 480
        ELSE best_score

\* log10 of a power of ten below 10000
log10(x) == CHOOSE k \in 0..3 : 10 ^ k = x

\* RelevanceRanker._compute_popularity_score, in quarters
compute_popularity_score(install_count) ==
    IF install_count <= 0 THEN 0
    ELSE IF install_count + 1 >= 10000 THEN 4
    ELSE log10(install_count + 1)

\* getattr(skill, 'source_registry', None)
source_registry_of(skill) ==
    IF "source_registry" \in DOMAIN skill THEN skill.source_registry ELSE "None"

\* has_content (relevance.py:174)
content_signal(skill) == IF truthy(skill.content) THEN 1 ELSE 0

\* has_refs (relevance.py:177-179)
references_signal(skill, include_references) ==
    IF include_references /\ skill.references # <<>> THEN 1 ELSE 0

\* curated_score, in 300ths (relevance.py:189-190)
curated_score(skill, query) ==
    LET is_curated == IF source_registry_of(skill) = CURATED_REGISTRY THEN 1 ELSE 0
    IN  (is_curated * CURATED_BOOST * compute_query_match(skill, query)) \div 2

\* the four weighted signals, in 300ths (relevance.py:194-197)
weighted_signals(skill, query, include_references) ==
    300 * content_signal(skill) * CONTENT_WEIGHT
    + 300 * references_signal(skill, include_references) * REFERENCES_WEIGHT
    + (compute_query_match(skill, query) * QUERY_MATCH_WEIGHT) \div 2
    + 75 * compute_popularity_score(skill.install_count) * POPULARITY_WEIGHT

\* the score of one skill before rounding, in 300ths (relevance.py:193-199)
score_of(skill, query, include_references) ==
    weighted_signals(skill, query, include_references) + curated_score(skill, query)

\* round(score, 2): the nearest 100th of a number of 300ths
round2(x) == (2 * x + 3) \div 6

\* sorted(..., reverse=True) keeps skills of equal score in their order:
\* a skill is put after every skill whose score is not smaller
RECURSIVE insert_by_score_before_equal(_, _)
RECURSIVE insert_by_score(_, _)
insert_by_score_before_equal(sorted, s) ==
    IF sorted = <<>> THEN <<s>>
    ELSE IF Head(sorted).relevance_score > s.relevance_score
         THEN <<Head(sorted)>> \o insert_by_score_before_equal(Tail(sorted), s)
         ELSE <<s>> \o sorted
insert_by_score(sorted, s) ==
    IF sorted = <<>> THEN <<s>>
    ELSE IF Head(sorted).relevance_score >= s.relevance_score
         THEN <<Head(sorted)>> \o insert_by_score(Tail(sorted), s)
         ELSE <<s>> \o sorted

RECURSIVE sorted_by_score(_, _)
sorted_by_score(scored, sorted) ==
    IF scored = <<>> THEN sorted
    ELSE sorted_by_score(Tail(scored), insert_by_score(sorted, Head(scored)))

\* RelevanceRanker.rank; at is the place of the skill in the list given
rank(skills, query, include_references) ==
    LET scored == [k \in 1..Len(skills) |->
                      [skill |-> skills[k], at |-> k,
                       relevance_score |-> round2(score_of(skills[k], query, include_references))]]
    IN  sorted_by_score(scored, <<>>)

\* the skills that _build_skill makes; origin is the source_registry of the
\* search result a skill was built from, which the Skill does not carry
RankIds == {<<"react">>, <<"gpt", "-", "research">>}
RankTitle(id) == IF id = <<"react">> THEN <<"React">> ELSE <<"deep", " ", "search">>
RankDescriptions == {<<>>, <<<<"search", " ", "react">>>>}
RankContents ==
    {[content |-> <<>>, references |-> <<>>],
     [content |-> <<<<>>>>, references |-> <<>>],
     [content |-> <<<<"react", " ", "guide">>>>, references |-> <<>>],
     [content |-> <<<<"react", " ", "guide">>>>, references |-> <<"ref">>],
     [content |-> <<<<"filler2000", " ", "guide">>>>, references |-> <<>>]}
RankOrigins ==
    {[origin |-> SKILL_GARDEN, install_count |-> 0],
     [origin |-> SKILLS_SH, install_count |-> 99],
     [origin |-> SKILLS_SH, install_count |-> 10000]}
RankSkills ==
    {[id |-> id, title |-> RankTitle(id), description |-> d, content |-> c.content,
      references |-> c.references, install_count |-> o.install_count, origin |-> o.origin] :
        id \in RankIds, d \in RankDescriptions, c \in RankContents, o \in RankOrigins}
RankQueries ==
    {<<>>, <<"react">>, <<"GPT", "-", "research">>, <<"search", " ", "react">>,
     <<"guide">>, <<"deep", " ", "react", " ", "zzz">>}

\* one skill of any kind is scored
ScoreInit ==
    /\ fn_in \in [skills : {<<s>> : s \in RankSkills}, query : RankQueries,
                  include_references : BOOLEAN]
    /\ fn_out = <<>>

\* several skills are put in order
RankListSkills == {s \in RankSkills : s.id = <<"react">> /\ s.description = <<>>}
RankListQueries == {<<>>, <<"react">>}
RankInit ==
    /\ fn_in \in [skills : SeqsUpTo(RankListSkills, MaxSkills), query : RankListQueries,
                  include_references : BOOLEAN]
    /\ fn_out = <<>>

\* search ranks the skills it has built (service.py:331-335)
search_rank ==
    /\ fn_out = <<>>
    /\ fn_out' = <<rank(fn_in.skills, fn_in.query, fn_in.include_references)>>
    /\ UNCHANGED <<fn_in, nonFnVars>>

RankNext == search_rank

RankSpecInit == AllIdle /\ RankInit

SpecRank == RankSpecInit /\ [][RankNext]_vars

ScoreSpecInit == AllIdle /\ ScoreInit

SpecScore == ScoreSpecInit /\ [][RankNext]_vars

----------------------------------------------------------------------------
(* The parser, SkillParser.parse.  A raw document is the sequence of its   *)
(* lines, each ended by a newline, the last one only if eol is set.  A     *)
(* line is "---" (the marker, with or without spaces after it), "" (a      *)
(* line of white space only), or a line of YAML or of markdown.            *)

\* the most lines of a document
MaxLines == 4

MARKER == "---"
BLANK == ""
ParserLines == {MARKER, BLANK, "name: x", "key: v", "text", "- item", "[]", "name: [invalid"}

\* str.strip() of some lines: without the white space at both ends
RECURSIVE strip_lines(_)
strip_lines(lines) ==
    IF lines = <<>> THEN <<>>
    ELSE IF Head(lines) = BLANK THEN strip_lines(Tail(lines))
    ELSE IF lines[Len(lines)] = BLANK THEN strip_lines(SubSeq(lines, 1, Len(lines) - 1))
    ELSE lines

\* FRONTMATTER_PATTERN.match: ^---\s*\n(.*?)\n---\s*\n with DOTALL.  \s* takes
\* b whole lines of white space after the first marker, as many as a match
\* allows; the group is then the lines up to the first later marker that
\* is ended by a newline, and holds one line at least.
frontmatter_closing(raw, eol, b) ==
    {c \in (3 + b)..Len(raw) : raw[c] = MARKER /\ (c < Len(raw) \/ eol)}
frontmatter_skipped(raw, eol) ==
    {b \in 0..Len(raw) :
        /\ \A k \in 2..(1 + b) : k <= Len(raw) /\ raw[k] = BLANK
        /\ frontmatter_closing(raw, eol, b) # {}}
frontmatter_match(raw, eol) ==
    IF raw # <<>> /\ raw[1] = MARKER /\ frontmatter_skipped(raw, eol) # {}
    THEN LET b == CHOOSE b \in frontmatter_skipped(raw, eol) :
                      \A b2 \in frontmatter_skipped(raw, eol) : b2 <= b
             c == CHOOSE c \in frontmatter_closing(raw, eol, b) :
                      \A c2 \in frontmatter_closing(raw, eol, b) : c <= c2
         IN  <<[group |-> SubSeq(raw, 2 + b, c - 1), end |-> c]>>
    ELSE <<>>

\* yaml.safe_load of the group: what kind of value it gives, or that it
\* raises YAMLError.  A first "---" line only starts the YAML document.
safe_load(group) ==
    LET body == IF group # <<>> /\ Head(group) = MARKER THEN Tail(group) ELSE group
        is_text(line) == line # BLANK
        lines == SelectSeq(body, is_text)
        kinds == Range(lines)
    IN  IF lines = <<>> THEN [kind |-> "None", name |-> <<>>]
        ELSE IF "name: [invalid" \in kinds \/ MARKER \in kinds THEN [kind |-> "YAMLError", name |-> <<>>]
        ELSE IF kinds \subseteq {"name: x", "key: v"}
        THEN [kind |-> "dict", name |-> IF "name: x" \in kinds THEN <<"x">> ELSE <<>>]
        ELSE IF lines = <<"[]">> THEN [kind |-> "empty list", name |-> <<>>]
        ELSE IF kinds = {"text"} THEN [kind |-> "str", name |-> <<>>]
        ELSE IF kinds = {"- item"} THEN [kind |-> "list", name |-> <<>>]
        ELSE [kind |-> "YAMLError", name |-> <<>>]

ParseError == [raises |-> "ParseError", name |-> "None", content |-> <<>>]

\* SkillParser.parse
parse(raw, eol) ==
    IF raw = <<>> \/ strip_lines(raw) = <<>> THEN ParseError
    ELSE LET match == frontmatter_match(raw, eol) IN
         IF match = <<>>
         THEN [raises |-> "no", name |-> "unknown", content |-> strip_lines(raw)]
         ELSE LET loaded == safe_load(match[1].group)
                  \* yaml.safe_load(frontmatter_yaml) or {}
                  frontmatter == IF loaded.kind \in {"None", "empty list"}
                                 THEN [kind |-> "dict", name |-> <<>>] ELSE loaded
              IN  IF loaded.kind = "YAMLError" THEN ParseError
                  ELSE IF frontmatter.kind # "dict" THEN ParseError
                  ELSE [raises |-> "no",
                        name |-> IF frontmatter.name # <<>> THEN frontmatter.name[1]
                                 ELSE "unknown",
                        content |-> strip_lines(SubSeq(raw, match[1].end + 1, Len(raw)))]

ParserInit ==
    /\ fn_in \in [raw : SeqsUpTo(ParserLines, MaxLines), eol : BOOLEAN]
    /\ fn_in.raw = <<>> => ~fn_in.eol
    /\ fn_out = <<>>

\* the service gives a retrieved document to the parser (service.py:248, 370)
parse_call ==
    /\ fn_out = <<>>
    /\ fn_out' = <<parse(fn_in.raw, fn_in.eol)>>
    /\ UNCHANGED <<fn_in, nonFnVars>>

ParserNext == parse_call

ParserSpecInit == AllIdle /\ ParserInit

SpecParser == ParserSpecInit /\ [][ParserNext]_vars

----------------------------------------------------------------------------
(* The MCP tool handlers search_skills and get_skill (mcp_server.py).  An   *)
(* argument is the sequence of its characters; the service, when there is  *)
(* one, answers a call with a response, with None (get_skill) or by        *)
(* raising.  A result is {"error": ...} when error is set.                 *)

MAX_QUERY_LENGTH == 500
MAX_SOURCE_LENGTH == 200
MAX_SKILL_ID_LENGTH == 200
MCP_LIMIT_CAP == 20

ERR_QUERY_EMPTY == "Query cannot be empty. Please provide a search term."
ERR_QUERY_LONG == "Query too long."
ERR_SOURCE_EMPTY == "Source cannot be empty. Expected format: owner/repo"
ERR_SOURCE_LONG == "Source too long."
ERR_SOURCE_FORMAT == "Invalid source format. Expected format: owner/repo"
ERR_ID_EMPTY == "Skill ID cannot be empty."
ERR_ID_LONG == "Skill ID too long."
ERR_NO_SERVICE == "Service not initialized"
ERR_NOT_FOUND == "Skill not found"
ERR_EXCEPTION == "str(e)"

\* str.strip on a sequence of characters: from the first to the last one that
\* is not white space
str_strip(text) ==
    LET inked == {k \in 1..Len(text) : text[k] # " "} IN
    IF inked = {} THEN <<>>
    ELSE SubSeq(text, CHOOSE k \in inked : \A j \in inked : k <= j,
                      CHOOSE k \in inked : \A j \in inked : k >= j)

\* what a handler returns, and the calls it made to the service
McpError(message) == [error |-> <<message>>, calls |-> <<>>]

\* search_skills
search_skills_empty_only(query, lim, service, answer) ==
    IF query = <<>> THEN McpError(ERR_QUERY_EMPTY)
    ELSE IF Len(query) > MAX_QUERY_LENGTH THEN McpError(ERR_QUERY_LONG)
    ELSE IF ~service THEN McpError(ERR_NO_SERVICE)
    ELSE LET clamped == Max(0, Min(lim, MCP_LIMIT_CAP))
             call == [op |-> "search", limit |-> clamped, include_content |-> TRUE]
         IN  [error |-> IF answer = "raises" THEN <<ERR_EXCEPTION>> ELSE <<>>,
              calls |-> <<call>>]
search_skills(query, lim, service, answer) ==
    IF query = <<>> \/ str_strip(query) = <<>> THEN McpError(ERR_QUERY_EMPTY)
    ELSE IF Len(query) > MAX_QUERY_LENGTH THEN McpError(ERR_QUERY_LONG)
    ELSE IF ~service THEN McpError(ERR_NO_SERVICE)
    ELSE LET clamped == Max(0, Min(lim, MCP_LIMIT_CAP))
             call == [op |-> "search", limit |-> clamped, include_content |-> TRUE]
         IN  [error |-> IF answer = "raises" THEN <<ERR_EXCEPTION>> ELSE <<>>,
              calls |-> <<call>>]

\* get_skill (the MCP tool)
mcp_get_skill(source, skill_id, service, answer) ==
    IF source = <<>> \/ str_strip(source) = <<>> THEN McpError(ERR_SOURCE_EMPTY)
    ELSE IF Len(source) > MAX_SOURCE_LENGTH THEN McpError(ERR_SOURCE_LONG)
    ELSE IF "/" \notin Range(source) THEN McpError(ERR_SOURCE_FORMAT)
    ELSE IF skill_id = <<>> \/ str_strip(skill_id) = <<>> THEN McpError(ERR_ID_EMPTY)
    ELSE IF Len(skill_id) > MAX_SKILL_ID_LENGTH THEN McpError(ERR_ID_LONG)
    ELSE IF ~service THEN McpError(ERR_NO_SERVICE)
    ELSE [error |-> IF answer = "raises" THEN <<ERR_EXCEPTION>>
                    ELSE IF answer = "none" THEN <<ERR_NOT_FOUND>> ELSE <<>>,
          calls |-> <<[op |-> "get_skill"]>>]

\* n times the character c
Repeat(c, n) == [k \in 1..n |-> c]

McpQueries ==
    {<<>>, <<" ">>, <<" ", " ">>, <<"a">>, <<" ", "a", " ">>,
     Repeat("a", MAX_QUERY_LENGTH), Repeat("a", MAX_QUERY_LENGTH + 1),
     Repeat(" ", MAX_QUERY_LENGTH + 1)}
McpLimits == {-1, 0, 1, 5, MCP_LIMIT_CAP, MCP_LIMIT_CAP + 1}
McpSources ==
    {<<>>, <<" ">>, <<"o">>, <<"/">>, <<"o", "/", "r">>,
     Repeat("a", MAX_SOURCE_LENGTH - 1) \o <<"/">>,
     Repeat("a", MAX_SOURCE_LENGTH) \o <<"/">>,
     Repeat("a", MAX_SOURCE_LENGTH + 1)}
McpSkillIds ==
    {<<>>, <<" ">>, <<"s">>, <<"s", "/", "t">>,
     Repeat("s", MAX_SKILL_ID_LENGTH), Repeat("s", MAX_SKILL_ID_LENGTH + 1)}
McpAnswers == {"response", "none", "raises"}

McpInit ==
    /\ \/ fn_in \in [tool : {"search_skills"}, query : McpQueries, limit : McpLimits,
                     service : BOOLEAN, answer : McpAnswers \ {"none"}]
       \/ fn_in \in [tool : {"get_skill"}, source : McpSources, skill_id : McpSkillIds,
                     service : BOOLEAN, answer : McpAnswers]
    /\ fn_out = <<>>

search_skills_call ==
    /\ fn_out = <<>>
    /\ fn_in.tool = "search_skills"
    /\ fn_out' = <<search_skills(fn_in.query, fn_in.limit, fn_in.service, fn_in.answer)>>
    /\ UNCHANGED <<fn_in, nonFnVars>>

mcp_get_skill_call ==
    /\ fn_out = <<>>
    /\ fn_in.tool = "get_skill"
    /\ fn_out' = <<mcp_get_skill(fn_in.source, fn_in.skill_id, fn_in.service, fn_in.answer)>>
    /\ UNCHANGED <<fn_in, nonFnVars>>

McpNext == search_skills_call \/ mcp_get_skill_call

McpSpecInit == AllIdle /\ McpInit

SpecMcp == McpSpecInit /\ [][McpNext]_vars

----------------------------------------------------------------------------
(* The aggregator on two results whose identifier or repository reference  *)
(* may hold "/" itself, as a line of the registry file can give them       *)
(* (registry.py:103-106, 196-197): both from the marketplace, or one from  *)
(* each source.                                                            *)

DedupIds == {<<"a">>, <<"A">>, <<"s", "/", "a">>}
DedupRepos == {<<"o", "/", "r">>, <<"O", "/", "r">>, <<"o", "/", "r", "/", "s">>}
DedupRows == [id : DedupIds, source : DedupRepos, installs : {0}]

DedupSource(registry, rows) ==
    [registry |-> registry, enabled |-> TRUE, response |-> [fail |-> FALSE, rows |-> rows]]

DedupInit ==
    /\ \E r1, r2 \in DedupRows :
          sources \in {<<DedupSource(SKILLS_SH, <<r1, r2>>)>>,
                       <<DedupSource(SKILLS_SH, <<r1>>), DedupSource(SKILL_GARDEN, <<r2>>)>>}
    /\ limit = 2
    /\ agg_pc = "idle"
    /\ agg_raised = FALSE
    /\ agg_out = <<>>

DedupSpecInit == CacheIdle /\ DedupInit /\ SvcIdle /\ ConcIdle /\ FnIdle

SpecDedup == DedupSpecInit /\ [][AggNext]_vars

----------------------------------------------------------------------------
(* RelevanceRanker._compute_query_match on its own: one skill, one query.   *)
(* A query is what the REST route lets through: any string of at least one *)
(* character (routes.py:67-70), white space included.                      *)

MatchSkills ==
    [id : RankIds,
     title : {<<"React">>, <<"gpt", " ", "research">>},
     description : RankDescriptions,
     content : {c.content : c \in RankContents}]
MatchQueries ==
    {<<" ">>, <<"search">>, <<"react">>, <<"React", " ">>, <<"GPT", "-", "research">>,
     <<"search", " ", "react">>, <<"guide">>, <<"deep", " ", "react", " ", "zzz">>}

MatchInit ==
    /\ fn_in \in [skill : MatchSkills, match_query : MatchQueries]
    /\ fn_out = <<>>

\* rank computes the query match of a skill (relevance.py:181-182)
compute_query_match_call ==
    /\ fn_out = <<>>
    /\ fn_out' = <<compute_query_match(fn_in.skill, fn_in.match_query)>>
    /\ UNCHANGED <<fn_in, nonFnVars>>

MatchNext == compute_query_match_call

MatchSpecInit == AllIdle /\ MatchInit

SpecMatch == MatchSpecInit /\ [][MatchNext]_vars

SvcSpecInit == SvcCacheInit /\ AggIdle /\ SvcIdle /\ ConcIdle /\ FnIdle

SpecSvc == SvcSpecInit /\ [][SvcNext]_vars

AggSpecInit == CacheIdle /\ AggInit /\ SvcIdle /\ ConcIdle /\ FnIdle

SpecAgg == AggSpecInit /\ [][AggNext]_vars

CacheSpecInit == CacheInit /\ AggIdle /\ SvcIdle /\ ConcIdle /\ FnIdle

SpecCache == CacheSpecInit /\ [][CacheNext]_vars

StatsSpecInit == StatsInit /\ AggIdle /\ SvcIdle /\ ConcIdle /\ FnIdle

SpecStats == StatsSpecInit /\ [][StatsNext]_vars

SweepSpecInit == SweepInit /\ AggIdle /\ SvcIdle /\ ConcIdle /\ FnIdle

\* the event loop runs a task whose sleep is over, and time passes
SpecSweep ==
    SweepSpecInit /\ [][SweepNext]_vars /\ WF_vars(cleanup_loop) /\ WF_vars(Tick)

----------------------------------------------------------------------------
(* Claims about the aggregator, checked under SpecAgg *)


\* the enabled sources whose search did not fail
Surviving(srcs) ==
    LET ok(src) == src.enabled /\ ~src.response.fail IN SelectSeq(srcs, ok)

\* an enabled source failed
SomeSourceFailed == \E i \in 1..Len(sources) : sources[i].enabled /\ sources[i].response.fail

\* every result a source's search returned to the aggregator
ReturnedBy(srcs) ==
    LET coros == search_tasks(srcs, limit) IN
    UNION {Range(coros[i].results) : i \in 1..Len(coros)}

\* C3: whichever enabled sources fail (raise or time out), the aggregator
\* returns normally, what it returns is the merge of the other sources'
\* results alone, and every result it returns comes from a source that did
\* not fail.
C3_FailingSourceIsolated ==
    agg_pc = "done" =>
        /\ ~agg_raised
        /\ agg_out = search_all_sources(Surviving(sources), limit).out
        /\ Range(agg_out) \subseteq ReturnedBy(Surviving(sources))

\* a registry source raised, the marketplace answered, and results came back
C3_Witness ==
    /\ agg_pc = "done"
    /\ \E i \in 1..Len(sources) :
        sources[i].enabled /\ sources[i].response.fail /\ sources[i].registry = SKILL_GARDEN
    /\ agg_out # <<>>
    /\ ~agg_raised

\* C4: the returned list holds at most one result per unique key, and where a
\* returned key was reported both by the marketplace and by another source,
\* in either order of the sources, the result kept is one the marketplace
\* returned (so it carries the marketplace's install count).
C4_MarketplacePreferred ==
    agg_pc = "done" =>
        /\ \A i, j \in 1..Len(agg_out) :
                i # j => unique_key(agg_out[i]) # unique_key(agg_out[j])
        /\ \A i \in 1..Len(agg_out) :
                LET same == {r \in ReturnedBy(sources) : unique_key(r) = unique_key(agg_out[i])} IN
                ( /\ \E r \in same : r.source_registry = SKILLS_SH
                  /\ \E r \in same : r.source_registry # SKILLS_SH )
                => /\ agg_out[i].source_registry = SKILLS_SH
                   /\ agg_out[i] \in same

\* the registry was searched first, the marketplace second, and a key both
\* reported was returned with the marketplace's result
C4_Witness ==
    /\ agg_pc = "done"
    /\ Len(sources) = 2
    /\ sources[1].registry = SKILL_GARDEN
    /\ \E i \in 1..Len(agg_out) :
        /\ agg_out[i].source_registry = SKILLS_SH
        /\ agg_out[i].installs > 0
        /\ \E r \in ReturnedBy(sources) :
            /\ r.source_registry = SKILL_GARDEN
            /\ unique_key(r) = unique_key(agg_out[i])
            /\ r.id # agg_out[i].id

\* the results kept after deduplication, one per unique key
Merged == seen_keys(<<>>, search_tasks(sources, limit))

DistinctKeys == {unique_key(r) : r \in ReturnedBy(sources)}

----------------------------------------------------------------------------
(* Claims about the cache, checked under SpecCache *)

\* a cache call was made in this step
CacheCall == nOps' = nOps + 1

\* the ttl a recorded set call asked for
RequestedTtl(g) == IF g.ttlArg = <<>> THEN default_ttl ELSE g.ttlArg[1]

\* C6: a get of a key whose last set (not since overwritten, deleted, evicted by
\* capacity or cleared) was made at time `at` with ttl t returns the value set
\* when t <= 0, or when t > 0 and at most t seconds have passed, and returns
\* absent when t > 0 and more than t seconds have passed; an omitted ttl is
\* default_ttl.
C6_TtlExpiry ==
    lastOp.op = "get" /\ lastSet[lastOp.key].live =>
        LET g == lastSet[lastOp.key]
            ttl == RequestedTtl(g)
        IN  lastOp.ret = IF ttl <= 0 \/ lastOp.at <= g.at + ttl THEN g.value ELSE None

\* a get exactly ttl seconds after a set with ttl > 0 returned the value
C6_Witness ==
    /\ lastOp.op = "get"
    /\ lastSet[lastOp.key].live
    /\ RequestedTtl(lastSet[lastOp.key]) > 0
    /\ lastOp.at = lastSet[lastOp.key].at + RequestedTtl(lastSet[lastOp.key])
    /\ lastOp.ret = lastSet[lastOp.key].value

StoredExpired(key) ==
    /\ key \in KeysOf(store)
    /\ is_expired(store[KeyIndex(store, key)], now)

\* C8 as stated: get and exists on an expired entry both remove it, report
\* absent/false and add one to misses and one to evictions.
C8_AsStated ==
    [][( /\ CacheCall
         /\ lastOp'.op \in {"get", "exists"}
         /\ StoredExpired(lastOp'.key) )
       => /\ lastOp'.key \notin KeysOf(store')
          /\ lastOp'.ret \in {None, "False"}
          /\ stats'.misses = stats.misses + 1
          /\ stats'.evictions = stats.evictions + 1
      ]_vars

\* C8, amended: get and exists on an expired entry both remove it, report
\* absent/false and add one to evictions; get also adds one to misses, exists
\* leaves misses unchanged.
C8_LazyExpiry ==
    [][( /\ CacheCall
         /\ lastOp'.op \in {"get", "exists"}
         /\ StoredExpired(lastOp'.key) )
       => /\ lastOp'.key \notin KeysOf(store')
          /\ Len(store') = Len(store) - 1
          /\ lastOp'.ret = (IF lastOp'.op = "get" THEN None ELSE "False")
          /\ stats'.misses = stats.misses + (IF lastOp'.op = "get" THEN 1 ELSE 0)
          /\ stats'.evictions = stats.evictions + 1
          /\ stats'.hits = stats.hits
      ]_vars

\* exists found an expired entry: one eviction, no miss
C8_Witness ==
    /\ lastOp.op = "exists"
    /\ lastOp.ret = "False"
    /\ nOps = 2
    /\ stats.sets = 1
    /\ stats.evictions = 1
    /\ stats.misses = 0
    /\ store = <<>>

----------------------------------------------------------------------------
(* Claims about the search service and the content fetcher (SpecSvc) *)

\* the Skills a search(include_content=true) returned
ReturnedWithContent ==
    IF response.kind = "search" /\ response.with_content
    THEN {response.skills[i] : i \in 1..Len(response.skills)}
    ELSE {}

\* C1: for every Skill returned by search(include_content=true), whatever the
\* earlier calls left in the content cache and the repo-tree cache, content is
\* non-null exactly when fetch and parse of the skill succeeded, fetch_error is
\* non-null exactly when they did not, and the two are never both non-null.
C1_ContentXorError ==
    \A e \in ReturnedWithContent :
        /\ (e.skill[1].content # <<>>) <=> e.ok
        /\ (e.skill[1].fetch_error # <<>>) <=> ~e.ok
        /\ ~(e.skill[1].content # <<>> /\ e.skill[1].fetch_error # <<>>)

\* C2: search(include_content=true) never raises to its caller: a result whose
\* fetching, parsing or assembling failed is returned with fetch_error set and
\* content null, and every result of the batch is returned.
C2_SearchNeverRaises ==
    (response.kind = "search" /\ response.with_content) =>
        /\ ~response.raised
        /\ Len(response.skills) = response.results
        /\ \A e \in ReturnedWithContent :
               ~e.ok => e.skill[1].content = <<>> /\ e.skill[1].fetch_error # <<>>

\* C10: for each repository the default branch and the tree are requested from
\* the remote API at most once, also when several fetches for skills of the
\* repository are in flight within one search batch.
C10_TreeRequestedOnce ==
    \A r \in SvcRepos : branch_requests[r] <= 1 /\ tree_requests[r] <= 1

----------------------------------------------------------------------------
(* Claims about concurrent callers of the cache (SpecConc) *)

Inside == {p \in Procs : cpc[p] = "inside"}

\* C9: under any interleaving of concurrent callers of get, set, delete,
\* exists, clear, stats and the background sweep, no two calls are inside the
\* store at once; whenever no call is inside it, the store and the counters are
\* those of the same calls made one after another (in the order the lock was
\* taken), every call returned what it returns in that sequence, and the store
\* never holds more than max_size entries.
C9_AtomicOperations ==
    /\ Cardinality(Inside) <= 1
    /\ Inside = {} => store = seq_store /\ stats = seq_stats
    /\ \A p \in Procs : cret[p].ret = cret[p].seq_ret
    /\ max_size # 0 => Len(store) <= max_size

\* two sets of new keys contend for a full store: one is past the eviction, the
\* other waits for the lock
C9_Witness ==
    \E p, q \in Callers :
        /\ p # q
        /\ cpc[p] = "inside" /\ cop[p].op = "set"
        /\ cpc[q] = "waiting" /\ cop[q].op = "set"
        /\ cop[p].key # cop[q].key
        /\ max_size # 0
        /\ stats.evictions > 0
        /\ cpc[SWEEP] = "idle" /\ nConc = MaxConcOps

\* the coroutine of result i, about to start, will call GitHubClient.fetch_skill:
\* content is asked for and the content cache does not answer
InvokesFetcher(i) ==
    /\ tasks[i].pc = "start"
    /\ svc_call.include_content
    /\ LET r == cache_get(store, stats, cache_key(tasks[i].result.source, tasks[i].result.id), now)
       IN  ~served_from_cache(r.hit, svc_call.include_references)

\* the coroutine of result i takes its first step
Starts(i) == i \in 1..Len(tasks') /\ tasks[i].pc = "start" /\ tasks'[i].pc # "start"

\* the outcome of the fetch for this key, as _fetch_and_cache_content stored it
StoredError(st, key) == IF KeyIndex(st, key) = 0 THEN <<>> ELSE st[KeyIndex(st, key)].value.error

\* C11: once the default-branch or tree retrieval for a repository has failed,
\* every fetch started later for a skill of that repository returns the
\* 'could not access repository' error and issues no network request.
C11_NegativeTreeCaching ==
    [][\A i \in 1..Len(tasks) :
          (Starts(i) /\ InvokesFetcher(i) /\ tree_failed[tasks[i].result.source]) =>
              /\ tasks'[i].pc = "done"
              /\ StoredError(store', cache_key(tasks[i].result.source, tasks[i].result.id))
                     = <<ERR_ACCESS>>
              /\ branch_requests' = branch_requests
              /\ tree_requests' = tree_requests]_vars

\* the coroutines whose call of fetch_skill has returned
Fetched == {i \in 1..Len(tasks) : tasks[i].fetched # <<>>}

\* C12: fetch_skill returns one outcome, decided in this order: tree
\* unavailable -> 'could not access repository'; tree without any skill
\* document -> 'no documents found'; resolver finds no path -> 'could not
\* locate skill content'; raw body not retrieved -> content-fetch error;
\* otherwise the content and no error.  Content is non-null exactly when error
\* is null, and the raw body is only asked for when the first three do not apply.
C12_FetchOutcome ==
    /\ \A i \in Fetched :
          LET fr == tasks[i].fetched[1]
              info == tasks[i].repo_info
          IN  /\ (fr.content # <<>>) <=> (fr.error = <<>>)
              /\ IF info = <<>> THEN fr.error = <<ERR_ACCESS>>
                 ELSE IF info[1].skills = {} THEN fr.error = <<ERR_NO_SKILLS>>
                 ELSE IF tasks[i].result.id \notin info[1].skills
                         /\ Cardinality(info[1].skills) # 1
                 THEN fr.error = <<ERR_LOCATE>>
                 ELSE fr.error \in {<<ERR_CONTENT>>, <<>>}
    /\ \A i \in 1..Len(tasks) :
          tasks[i].pc = "await_raw" =>
              /\ tasks[i].repo_info # <<>>
              /\ tasks[i].repo_info[1].skills # {}
              /\ (tasks[i].result.id \in tasks[i].repo_info[1].skills
                  \/ Cardinality(tasks[i].repo_info[1].skills) = 1)

\* two fetches of one batch used the same tree: the resolver found no path for
\* the one, the other returned the content
C12_Witness ==
    /\ Len(tasks) = 2
    /\ Fetched = {1, 2}
    /\ tasks[1].repo_info = tasks[2].repo_info
    /\ tasks[1].fetched[1].error = <<ERR_LOCATE>>
    /\ tasks[2].fetched[1].content # <<>>

\* the coroutine of result i, in its first step, was served without fetch_skill
NotFetched(i) == tasks'[i].pc = "done" /\ tasks'[i].fetched = <<>>

\* the coroutine of result i, in its first step, called fetch_skill
CalledFetcher(i) == tasks'[i].fetched # <<>> \/ tasks'[i].pc \in {"await_branch", "await_tree", "await_raw"}

\* C13: after a failed fetch for (source, id), a call for the same key without
\* references made within 300 seconds does not invoke the fetcher and a call
\* made after 300 seconds does; after a successful fetch, a call without
\* references made within cache_ttl seconds does not invoke the fetcher.
C13_ResultCaching ==
    [][\A i \in 1..Len(tasks) :
          LET h == lastFetch[tasks[i].result] IN
          (Starts(i) /\ svc_call.include_content /\ ~svc_call.include_references /\ h.done) =>
              /\ (~h.ok /\ now - h.at <= FAILURE_TTL) => NotFetched(i)
              /\ (~h.ok /\ now - h.at > FAILURE_TTL) => CalledFetcher(i)
              /\ (h.ok /\ now - h.at <= CACHE_TTL) => NotFetched(i)]_vars

\* exactly 300 seconds after a batch of two, the key whose fetch failed and
\* the key whose fetch succeeded are both served from the cache
C13_Witness ==
    /\ Len(tasks) = 2
    /\ \A i \in {1, 2} : tasks[i].pc = "done" /\ tasks[i].fetched = <<>>
    /\ svc_call.include_content
    /\ lastFetch[tasks[1].result] = [done |-> TRUE, ok |-> FALSE, at |-> 0]
    /\ lastFetch[tasks[2].result].ok
    /\ now = FAILURE_TTL

\* a key whose fetch failed is fetched again after more than 300 seconds
C13_WitnessRefetch ==
    \E i \in 1..Len(tasks) :
        /\ ~svc_call.include_references
        /\ tasks[i].pc = "await_raw"
        /\ lastFetch[tasks[i].result].done /\ ~lastFetch[tasks[i].result].ok
        /\ now - lastFetch[tasks[i].result].at > FAILURE_TTL

----------------------------------------------------------------------------
(* Claims about the URL builders (SpecUrl) *)

\* "//" occurs in the URL after the scheme
DoubleSlash(url) == \E i \in 4..(Len(url) - 1) : url[i] = "/" /\ url[i + 1] = "/"

\* C14: get_github_url and get_skills_sh_url never return a URL with '//' after
\* the 'https://' scheme, for every empty or non-empty source and every empty,
\* single-segment or multi-segment skill_id.
C14_NoDoubleSlash ==
    fn_out # <<>> => ~DoubleSlash(fn_out[1].github) /\ ~DoubleSlash(fn_out[1].skills_sh)

\* part occurs in url as a contiguous piece
Contains(url, part) ==
    \E i \in 1..(Len(url) - Len(part) + 1) : SubSeq(url, i, i + Len(part) - 1) = part

\* a URL of the host that does not name a repository with an empty name
OnHost(url, host) == Len(url) >= 4 /\ SubSeq(url, 1, 4) = HTTPS \o <<host>> /\ ~DoubleSlash(url)

\* the segments of an identifier
Segments(str) == LET isName(x) == x # "/" IN SelectSeq(str, isName)

\* C15: when source is empty, each builder recovers owner/repo from a
\* multi-segment skill_id (its first two segments appear in the URL as
\* 'owner/repo') and for a single-segment skill_id returns a generic fallback
\* URL on the same host.
C15_EmptySourceRecovery ==
    (fn_out # <<>> /\ fn_in.source = <<>>) =>
        LET segs == Segments(fn_in.skill_id) IN
        /\ Len(segs) >= 2 =>
              /\ Contains(fn_out[1].github, <<segs[1], "/", segs[2]>>)
              /\ Contains(fn_out[1].skills_sh, <<segs[1], "/", segs[2]>>)
        /\ Len(segs) = 1 =>
              /\ OnHost(fn_out[1].github, "github.com")
              /\ OnHost(fn_out[1].skills_sh, "skills.sh")

(* The resolver's tiers as the specification names them, each the set of   *)
(* the tree's paths that the tier matches for an identifier.               *)
PathSet(skill_paths) == {skill_paths[i] : i \in 1..Len(skill_paths)}
Variants(skill_id) == {id_variants(skill_id)[k] : k \in 1..Len(id_variants(skill_id))}
Folder(path) == IF Len(path) >= 2 THEN <<path[Len(path) - 1]>> ELSE <<>>
TemplateRank(skill_id, path) ==
    LET variants == id_variants(skill_id)
        patterns == Flatten([k \in 1..Len(variants) |-> priority_patterns(variants[k])])
    IN  {k \in 1..Len(patterns) : patterns[k] = path}
TierTemplate(skill_paths, skill_id) ==
    {path \in PathSet(skill_paths) : TemplateRank(skill_id, path) # {}}
TierComponent(skill_paths, skill_id) ==
    {path \in PathSet(skill_paths) :
        \E v \in Variants(skill_id) : \E k \in 1..(Len(path) - 1) : path[k] = v}
TierSuffix(skill_paths, skill_id) ==
    {path \in PathSet(skill_paths) :
        /\ Folder(path) # <<>>
        /\ endswith(skill_id, Folder(path)[1])
        /\ StrLen(Folder(path)[1]) > 5}
TierVendorSuffix(skill_paths, skill_id) ==
    {path \in PathSet(skill_paths) :
        /\ Folder(path) # <<>>
        /\ \E v \in Variants(skill_id) :
              /\ StrLen(v) >= 4
              /\ \/ endswith(Folder(path)[1], <<"-">> \o v)
                 \/ endswith(Folder(path)[1], <<"_">> \o v)}
TierOnlyDocument(skill_paths) ==
    IF Len(skill_paths) = 1 THEN {skill_paths[1]} ELSE {}
Tiers(skill_paths, skill_id) ==
    << TierTemplate(skill_paths, skill_id), TierComponent(skill_paths, skill_id),
       TierSuffix(skill_paths, skill_id), TierVendorSuffix(skill_paths, skill_id),
       TierOnlyDocument(skill_paths) >>
Resolved == fn_out # <<>> /\ "skill_paths" \in DOMAIN fn_in

\* C16: the resolver returns a match of the earliest tier that has one
\* (templates, then directory component, then suffix, then vendor suffix,
\* then the only document), and among the templates the one that comes
\* first, the full identifier's templates before a stripped variant's.
C16_TierOrder ==
    Resolved =>
        LET tiers == Tiers(fn_in.skill_paths, fn_in.skill_id)
        IN  \A t \in 1..5 :
                (tiers[t] # {} /\ \A u \in 1..(t - 1) : tiers[u] = {}) =>
                    /\ fn_out[1] # <<>>
                    /\ fn_out[1][1] \in tiers[t]
                    /\ t = 1 =>
                          \A path \in tiers[1] : \A k \in TemplateRank(fn_in.skill_id, path) :
                              \E m \in TemplateRank(fn_in.skill_id, fn_out[1][1]) : m <= k

\* the returned path came from the suffix loop: no template and no
\* component matched, and the suffix loop found a path
BySuffixTier ==
    /\ Resolved
    /\ match_priority(fn_in.skill_paths, fn_in.skill_id) = <<>>
    /\ match_fuzzy(fn_in.skill_paths, fn_in.skill_id) = <<>>
    /\ match_suffix(fn_in.skill_paths, fn_in.skill_id) # <<>>

\* C18: a path returned by the suffix tier has a containing folder that is
\* longer than 5 characters and that the identifier ends with.
C18_SuffixByFolderOnly ==
    BySuffixTier => fn_out[1][1] \in TierSuffix(fn_in.skill_paths, fn_in.skill_id)

\* C19: when no tier before the last has a match, the resolver returns the
\* only document of a tree that has exactly one, and nothing otherwise.
C19_OnlyDocumentFallback ==
    (Resolved /\ \A t \in 1..4 : Tiers(fn_in.skill_paths, fn_in.skill_id)[t] = {}) =>
        fn_out[1] = match_only_document(fn_in.skill_paths)

\* the tree's only document is skills/v/SKILL.md and the identifier is v
\* with the k-th vendor prefix (k = 0: with none)
OnlySkillsV(k) ==
    /\ Resolved
    /\ Len(fn_in.skill_paths) = 1
    /\ \E v \in ResolverIds :
          /\ fn_in.skill_paths[1] = <<<<"skills">>, v, SKILL_MD>>
          /\ fn_in.skill_id = (IF k = 0 THEN v ELSE prefixes_to_strip[k] \o v)

\* C17: in a tree whose only document is skills/v/SKILL.md, v and v with any
\* of the four vendor prefixes both resolve to that document.
C17_VendorPrefix ==
    \A k \in 0..4 : OnlySkillsV(k) => fn_out[1] = <<fn_in.skill_paths[1]>>
C17_Witness == \E k \in 1..4 : OnlySkillsV(k)

(* Reference discovery as the specification states it, on segments.        *)
RECURSIVE split(_)
split(path) ==
    IF \A k \in 1..Len(path) : path[k] # "/" THEN <<path>>
    ELSE LET k == CHOOSE k \in 1..Len(path) :
                      path[k] = "/" /\ \A j \in 1..(k - 1) : path[j] # "/"
         IN  <<SubSeq(path, 1, k - 1)>> \o split(SubSeq(path, k + 1, Len(path)))
Segs(path) == [k \in 1..Len(split(path)) |-> IF split(path)[k] = <<>> THEN "" ELSE split(path)[k][1]]
DirOf(path) == SubSeq(Segs(path), 1, Len(Segs(path)) - 1)
FileOf(path) == Segs(path)[Len(Segs(path))]
Markdown(path) == FileOf(path) \in {"SKILL.md", "skill.md", "guide.md"}
Discovered == fn_out # <<>> /\ "all_paths" \in DOMAIN fn_in
ExpectedReferences ==
    LET D == IF fn_in.skill_dir = <<>> THEN <<>> ELSE Segs(fn_in.skill_dir)
        tree == {fn_in.all_paths[k] : k \in 1..Len(fn_in.all_paths)}
    IN  {path \in tree :
            /\ Markdown(path)
            /\ \/ DirOf(path) = D /\ upper(FileOf(path)) # "SKILL.MD"
               \/ \E n \in 1..Len(REFERENCE_DIRS) : DirOf(path) = Append(D, REFERENCE_DIRS[n])}

\* C20: reference discovery returns exactly the markdown files directly in
\* the skill directory other than the skill document (in any case) and the
\* markdown files directly in its references, resources, docs, examples and
\* rules subdirectories, each path once.
C20_ReferenceDiscovery ==
    Discovered =>
        /\ {fn_out[1][k].path : k \in 1..Len(fn_out[1])} = ExpectedReferences
        /\ \A i, j \in 1..Len(fn_out[1]) : i # j => fn_out[1][i].path # fn_out[1][j].path

FetchReturned == fn_out # <<>> /\ "pc" \in DOMAIN fn_out[1] /\ fn_out[1].pc = "returned"

\* C21: without include_references the result has no references and no
\* reference is requested; with it the result has one entry per discovered
\* reference file, an entry whose retrieval failed has a null body, and
\* the skill's content is returned without an error in every case.
C21_ReferenceBodies ==
    /\ (fn_out # <<>> /\ ~fn_in.include_references) =>
           fn_out[1].requests = 0 /\ fn_out[1].result.references = <<>>
    /\ FetchReturned =>
           LET result == fn_out[1].result
               found == find_reference_files(fn_in.all_paths, fn_in.skill_dir)
           IN  /\ result.content = "document"
               /\ result.error = "None"
               /\ fn_in.include_references =>
                     /\ Len(result.references) = Len(found)
                     /\ \A k \in 1..Len(found) :
                           /\ result.references[k].path = found[k].path
                           /\ result.references[k].content = fn_out[1].answers[k]
C21_Witness ==
    /\ FetchReturned
    /\ fn_in.include_references
    /\ \E i, j \in 1..Len(fn_out[1].answers) :
          fn_out[1].answers[i] = "None" /\ fn_out[1].answers[j] = "body"

(* The ranker's score as the specification states it, in 300ths.           *)
Ranked == fn_out # <<>> /\ "query" \in DOMAIN fn_in
Entries == {fn_out[1][k] : k \in 1..Len(fn_out[1])}
QueryMatch(e) == compute_query_match(e.skill, fn_in.query)
StatedPopularity(install_count) ==
    IF install_count + 1 >= 10000 THEN 4 ELSE log10(install_count + 1)
StatedBoost(e) == IF e.skill.origin = SKILL_GARDEN THEN 4 * QueryMatch(e) ELSE 0
StatedScore(e) ==
    300 * 40 * (IF e.skill.content # <<>> THEN 1 ELSE 0)
    + 300 * 15 * (IF fn_in.include_references /\ e.skill.references # <<>> THEN 1 ELSE 0)
    + 15 * QueryMatch(e)
    + 1125 * StatedPopularity(e.skill.install_count)
    + StatedBoost(e)

\* C22: the relevance_score is the sum of 40 for content, 15 for references
\* requested and present, 30 times the query match, 15 times the capped
\* logarithm of the installs and the curated boost, rounded to 2 decimals;
\* content, query equal to the id and 10,000 installs without references
\* requested give 85, and no content with no query match gives 0.
C22_TotalScore ==
    Ranked => \A e \in Entries :
        /\ e.relevance_score = round2(StatedScore(e))
        /\ ( /\ e.skill.content # <<>>
             /\ ~fn_in.include_references
             /\ fn_in.query = e.skill.id
             /\ e.skill.install_count = 10000 ) => e.relevance_score = 8500
        /\ (e.skill.content = <<>> /\ QueryMatch(e) = 0) => e.relevance_score = 0

\* C24: the content signal of a ranked skill is 40 points when its content
\* is not null, whatever the content, and 0 points when it is null.
C24_ContentSignal ==
    Ranked => \A e \in Entries :
        CONTENT_WEIGHT * content_signal(e.skill) = (IF e.skill.content # <<>> THEN 40 ELSE 0)

\* C25: rank gives a skill that search built from a result of the static
\* registry 8 times its query match on top of the four weighted signals,
\* and a skill from another source nothing on top of them.
C25_CuratedBoost ==
    Ranked => \A e \in Entries :
        e.relevance_score =
            round2(weighted_signals(e.skill, fn_in.query, fn_in.include_references)
                   + StatedBoost(e))

ParseFailed(i) ==
    tasks[i].pc = "done" /\ tasks[i].parsed # <<>> /\ parse_raises(tasks[i].parsed[1])
AsFetchFailure(skill) ==
    skill # <<>> /\ skill[1].content = <<>> /\ skill[1].fetch_error # <<>>

\* C26: when the document of a skill is retrieved and its parsing fails,
\* the call does not raise, search returns the skill with fetch_error set
\* and no content, and get_skill returns nothing.
C26_ParseFailure ==
    /\ \A i \in 1..Len(tasks) :
          ParseFailed(i) =>
              /\ \A j \in 1..Len(tasks) : ~tasks[j].raised
              /\ svc_call.kind = "search" => AsFetchFailure(tasks[i].skill)
              /\ svc_call.kind = "get_skill" => tasks[i].skill = <<>>
    /\ \A k \in 1..Len(response.skills) :
          (response.skills[k].parsed # <<>> /\ parse_raises(response.skills[k].parsed[1])) =>
              /\ response.kind = "search" => AsFetchFailure(response.skills[k].skill)
              /\ response.kind = "get_skill" => response.skills[k].skill = <<>>

(* The parser's contract as the specification states it.                   *)
Parsed == fn_out # <<>> /\ "raw" \in DOMAIN fn_in
EmptyInput == \A k \in 1..Len(fn_in.raw) : fn_in.raw[k] = BLANK
\* a front-matter block: the document begins with a marker and has another
BlockEnd == {c \in 2..Len(fn_in.raw) : fn_in.raw[c] = MARKER}
HasBlock == fn_in.raw # <<>> /\ fn_in.raw[1] = MARKER /\ BlockEnd # {}
BlockLines ==
    LET c == CHOOSE c \in BlockEnd : \A c2 \in BlockEnd : c <= c2
    IN  {fn_in.raw[k] : k \in 2..(c - 1)}
WellFormedMapping == BlockLines \subseteq {"name: x", "key: v", BLANK}

\* C27: parse fails with ParseError exactly when the input is empty or
\* white space only, or has a front-matter block that is not a well-formed
\* mapping; without a front-matter block the whole text, stripped, is the
\* body and the name is 'unknown'.
C27_ParseErrorExactly ==
    Parsed =>
        /\ (fn_out[1].raises = "ParseError") <=>
               (EmptyInput \/ (HasBlock /\ ~WellFormedMapping))
        /\ (~EmptyInput /\ ~HasBlock) =>
               /\ fn_out[1].name = "unknown"
               /\ fn_out[1].content = strip_lines(fn_in.raw)

----------------------------------------------------------------------------
(* Claims about the cache statistics, checked under SpecStats *)

Abs(x) == IF x >= 0 THEN x ELSE 0 - x

\* what stats() returned, when it is the call just made
StatsReturned == lastOp.op = "stats" /\ lastStats # <<>>

\* C28: after any sequence of cache operations stats().hit_rate is
\* 100 * hits / (hits + misses) rounded to 2 decimals, and 0 when there was no
\* get call, where hits counts the get calls that returned a value and misses
\* the get calls that returned absent.  hit_rate is in hundredths, so "rounded
\* to 2 decimals" is: no other hundredth is nearer to the quotient.
C28_HitRate ==
    StatsReturned =>
        LET hits == getLog.value
            misses == getLog.absent
            hit_rate == lastStats[1].hit_rate
        IN  IF hits + misses = 0
            THEN hit_rate = 0
            ELSE 2 * Abs(hit_rate * (hits + misses) - 10000 * hits) <= hits + misses

\* stats() is called after reads of both kinds, and the quotient needed rounding
C28_Witness ==
    /\ StatsReturned
    /\ getLog.value > 0
    /\ getLog.absent > 0
    /\ lastStats[1].hit_rate * (getLog.value + getLog.absent) # 10000 * getLog.value

----------------------------------------------------------------------------
(* Claims about the background sweep, checked under SpecSweep *)

\* the step is a run of the sweep
SweepRun == sweepLog'.runs = sweepLog.runs + 1

\* the positions of the entries whose expiry instant has passed
Passed(st, t) == {i \in 1..Len(st) : st[i].expires_at # <<>> /\ st[i].expires_at[1] < t}

\* the cleanup task is asleep until time t
AsleepUntil(t) == cleanup_task # <<>> /\ cleanup_task[1].wake_at = t

\* C29: while the cache is started the background sweep runs repeatedly at the
\* configured interval, independent of any reads: a task asleep until t runs
\* the sweep at t or later unless the cache is stopped, never earlier, and then
\* sleeps for the interval again.  Each run removes every entry whose expiry
\* instant has passed and no other entry, and adds one to evictions per
\* removed entry.
C29_BackgroundSweep ==
    /\ [][SweepRun =>
            /\ AsleepUntil(cleanup_task[1].wake_at) /\ now >= cleanup_task[1].wake_at
            /\ cleanup_task' = <<[wake_at |-> now + cleanup_interval]>>
            /\ KeysOf(store') = {store[i].key : i \in (1..Len(store)) \ Passed(store, now)}
            /\ Len(store') = Len(store) - Cardinality(Passed(store, now))
            /\ \A j \in 1..Len(store') : \E i \in 1..Len(store) : store'[j] = store[i]
            /\ stats' = [stats EXCEPT !.evictions = @ + Cardinality(Passed(store, now))]]_vars
    /\ \A t \in 0..MaxTime :
           AsleepUntil(t) ~> (cleanup_task = <<>> \/ (sweepLog.runs > 0 /\ sweepLog.at >= t))

\* the sweep has run twice, the second time it removed an expired entry that
\* no call had read, and an unexpired or never-expiring entry stayed
C29_Witness ==
    /\ lastOp.op = "cleanup"
    /\ sweepLog.runs > 1
    /\ sweepLog.removed > 0
    /\ getLog = [value |-> 0, absent |-> 0]
    /\ Len(store) > 0

----------------------------------------------------------------------------
(* Claims about delete, checked under SpecCache *)

\* the step is a call delete(k)
DeleteCall(k) == lastOp'.op = "delete" /\ lastOp'.key = k /\ nOps' = nOps + 1

\* C30: delete(k) returns true if and only if k held an unexpired entry
\* immediately before the call, that is exactly when exists(k) would have
\* returned true; it increments the deletes counter only in that case; and in
\* every case get(k) is absent immediately afterwards.
C30_DeleteIffUnexpired ==
    [][\A k \in CacheKeys :
          DeleteCall(k) =>
              LET existed == cache_exists(store, stats, k, now).ret IN
              /\ (lastOp'.ret = BoolStr(TRUE)) <=> existed
              /\ stats'.deletes = stats.deletes + (IF existed THEN 1 ELSE 0)
              /\ ~cache_get(store', stats', k, now').hit]_vars

----------------------------------------------------------------------------
(* Claims about the MCP tool handlers, checked under SpecMcp *)

McpReturned(tool) == fn_out # <<>> /\ fn_in.tool = tool

\* white space only, the empty string included
Blank(text) == \A k \in 1..Len(text) : text[k] = " "

InvalidQuery(query) == Blank(query) \/ Len(query) > MAX_QUERY_LENGTH
InvalidSource(source) ==
    source = <<>> \/ Len(source) > MAX_SOURCE_LENGTH \/ \A k \in 1..Len(source) : source[k] # "/"
InvalidSkillId(skill_id) == skill_id = <<>> \/ Len(skill_id) > MAX_SKILL_ID_LENGTH

\* C31: search_skills and get_skill validate their inputs before consulting
\* the service: an empty, white-space-only or over-long query, an empty or
\* over-long source, a source without "/", an empty or over-long skill_id each
\* give an {error: ...} result, with or without a service, and no service call
\* is made; the limit of a search that is made is the given one clamped into
\* [0, 20], and a limit of 0 gives no error of its own.
C31_McpValidation ==
    /\ McpReturned("search_skills") =>
          /\ InvalidQuery(fn_in.query) =>
                fn_out[1].error # <<>> /\ fn_out[1].calls = <<>>
          /\ \A k \in 1..Len(fn_out[1].calls) :
                /\ fn_out[1].calls[k].limit \in 0..20
                /\ fn_in.limit \in 0..20 => fn_out[1].calls[k].limit = fn_in.limit
                /\ fn_in.limit < 0 => fn_out[1].calls[k].limit = 0
                /\ fn_in.limit > 20 => fn_out[1].calls[k].limit = 20
          /\ ~InvalidQuery(fn_in.query) /\ fn_in.service /\ fn_in.answer = "response" =>
                fn_out[1].error = <<>> /\ Len(fn_out[1].calls) = 1
    /\ McpReturned("get_skill")
          /\ (InvalidSource(fn_in.source) \/ InvalidSkillId(fn_in.skill_id))
          => fn_out[1].error # <<>> /\ fn_out[1].calls = <<>>

\* an over-long query is refused although no service is initialized, with the
\* message of the query and not that of the service
C31_Witness ==
    /\ McpReturned("search_skills")
    /\ ~fn_in.service
    /\ Len(fn_in.query) > MAX_QUERY_LENGTH
    /\ fn_out[1].error = <<ERR_QUERY_LONG>>

----------------------------------------------------------------------------
(* Claims about the unique key, checked under SpecDedup *)

\* the two results the sources returned, in the order they are merged
DedupFirst == sources[1].response.rows[1]
DedupSecond == sources[Len(sources)].response.rows[Len(sources[Len(sources)].response.rows)]

\* equal ignoring case
SameIgnoringCase(x, y) == lower(x) = lower(y)

\* C32: two search results are treated as duplicates by the aggregator if and
\* only if their repository references are equal ignoring case and their
\* identifiers are equal ignoring case; results that differ in either
\* component, "/" inside a component included, are never merged.
C32_DuplicateIffBothEqual ==
    agg_pc = "done" =>
        (Len(agg_out) = 1 <=>
            /\ SameIgnoringCase(DedupFirst.source, DedupSecond.source)
            /\ SameIgnoringCase(DedupFirst.id, DedupSecond.id))

----------------------------------------------------------------------------
(* Claims about the query match, checked under SpecMatch *)

Matched == fn_out # <<>> /\ "match_query" \in DOMAIN fn_in

\* the whole words of a text after normalization
WholeWords(text) == Range(split_words(normalize(text)))

\* the whole words of the skill's identifier, title, description and of the
\* first 2000 characters of its body
SkillWords(skill) ==
    WholeWords(skill.id) \cup WholeWords(skill.title)
    \cup (IF skill.description = <<>> THEN {} ELSE WholeWords(skill.description[1]))
    \cup (IF skill.content = <<>> THEN {} ELSE WholeWords(take(skill.content[1], 2000)))

\* C33: query matching is whole-word, not substring: the query-match
\* fraction of a skill is 0 whenever no query word equals, as a whole word
\* after normalization, any word of the skill's identifier, title, description
\* or of the first 2000 characters of its body.
C33_WholeWordMatch ==
    Matched =>
        (WholeWords(fn_in.match_query) \cap SkillWords(fn_in.skill) = {} => fn_out[1] = 0)

----------------------------------------------------------------------------
(* Claims about set on a stored key, checked under SpecCache *)

\* the step is a call set(k, v, ...)
SetCall(k) == lastOp'.op = "set" /\ lastOp'.key = k /\ nOps' = nOps + 1

\* C34: set(k, v2) on a key that is already stored replaces only the value
\* and expiry of k: no entry is evicted even when the cache is at capacity,
\* the number of entries is unchanged, every other entry keeps its value and
\* expiry, the evictions counter is unchanged, and a following get(k)
\* returns v2.
C34_SetStoredKey ==
    [][\A k \in CacheKeys :
          SetCall(k) /\ k \in KeysOf(store) =>
              /\ Len(store') = Len(store)
              /\ \A i \in 1..Len(store) :
                    /\ store'[i].key = store[i].key
                    /\ store[i].key # k => store'[i] = store[i]
              /\ stats'.evictions = stats.evictions
              /\ LET following == cache_get(store', stats', k, now') IN
                 following.hit /\ following.value = lastSet'[k].value]_vars

\* a full cache holds k1 with one value, and k1 has just been set to another
C34_Witness ==
    /\ lastOp.op = "set"
    /\ max_size # 0 /\ Len(store) = max_size
    /\ insOrder[1] = lastOp.key
    /\ stats.sets > Len(store)
    /\ stats.evictions = 0
    /\ stats.deletes = 0

----------------------------------------------------------------------------
(* Claims about the lifecycle of the cleanup task, checked under           *)
(* SpecLifecycle                                                           *)

\* the tasks that were created and have not ended
LiveTasks == {i \in 1..Len(sweep_tasks) : sweep_tasks[i].state # "done"}

\* the step is a call of start, of stop
StartCall == nOps' = nOps + 1 /\ stopping' = stopping /\ lastOp'.op = "start"
StopReturns == lastOp' # lastOp /\ lastOp'.op = "stop"

\* C35: at most one cleanup task exists at any time, however many times
\* start is called, and a start that finds a task changes nothing; once a
\* stop has returned no sweep runs until start is called again; a stop that
\* finds no task changes nothing; a start that follows a stop creates a new
\* task, asleep for the interval.
C35_SweepLifecycle ==
    /\ [](Cardinality(LiveTasks) <= 1)
    /\ [][StartCall /\ cleanup_task # <<>> =>
            UNCHANGED <<cleanup_task, sweep_tasks>>]_vars
    /\ [][SweepRun => lastOp.op # "stop"]_vars
    /\ [][StopReturns /\ cleanup_task = <<>> =>
            UNCHANGED <<cleanup_task, sweep_tasks, store, stats, sweepLog>>]_vars
    /\ [][StartCall /\ lastOp.op = "stop" =>
            /\ Len(sweep_tasks') = Len(sweep_tasks) + 1
            /\ cleanup_task' = <<Len(sweep_tasks')>>
            /\ sweep_tasks'[Len(sweep_tasks')] =
                   [state |-> "asleep", wake_at |-> now + cleanup_interval]]_vars

----------------------------------------------------------------------------
(* Claims about recovery and refetching, checked under SpecSvc *)

\* the retrieval of the repository's tree failed, the fetch of the skill
\* failed with it, and more than the ttl of a cached failure has passed since
FailedLongAgo(r) ==
    /\ repo_cache[r.source] = [cached |-> TRUE, info |-> <<>>]
    /\ lastFetch[r].done
    /\ ~lastFetch[r].ok
    /\ now > lastFetch[r].at + FAILURE_TTL

\* C36: when the tree retrieval of a repository has failed, a request for a
\* skill of that repository made after the ttl of the cached failure has
\* elapsed attempts the remote retrieval again: it sends the default-branch
\* request that _get_repo_tree starts with.
C36_RetryAfterFailureTtl ==
    [][\A i \in 1..Len(tasks) :
          Starts(i) /\ svc_call.include_content /\ FailedLongAgo(tasks[i].result) =>
              branch_requests'[tasks[i].result.source]
                  = branch_requests[tasks[i].result.source] + 1]_vars

\* the repo-tree cache holds a retrieved tree for the repository
TreeStored(rc, r) == rc[r].cached /\ rc[r].info # <<>>

\* C37: once a successfully retrieved tree is stored in the repo-tree cache,
\* the entry of that repository is never replaced by the 'unavailable'
\* marker, whatever retrievals for the repository are still in flight.
C37_SuccessNotOverwritten ==
    [][\A r \in SvcRepos : TreeStored(repo_cache, r) => TreeStored(repo_cache', r)]_vars

\* the store holds an entry for the key that has not expired
Unexpired(st, key, t) == KeyIndex(st, key) # 0 /\ ~is_expired(st[KeyIndex(st, key)], t)

\* the call of fetch_skill made by the coroutine of result i returns in this step
FetchReturns(i) ==
    /\ tasks[i].pc \in {"start", "await_branch", "await_tree", "await_raw"}
    /\ i \in 1..Len(tasks')
    /\ tasks[i].fetched = <<>>
    /\ tasks'[i].fetched # <<>>

\* the cache entry that records the outcome fr of a fetch made at time t
OutcomeEntry(key, fr, t) ==
    [key |-> key,
     value |-> [content |-> fr.content, error |-> fr.error],
     expires_at |-> <<t + (IF fr.content # <<>> THEN CACHE_TTL ELSE FAILURE_TTL)>>]

\* C38: a content request with include_references set always invokes the
\* fetcher, whether or not an unexpired cache entry, positive or negative,
\* exists for the key, and the outcome replaces the entry of the key: a
\* success kept for cache_ttl, a failure for 300 seconds.  A request with
\* include_references unset invokes the fetcher only when the cache holds no
\* unexpired entry for the key.
C38_ReferencesBypassCache ==
    [][\A i \in 1..Len(tasks) :
          LET key == cache_key(tasks[i].result.source, tasks[i].result.id) IN
          /\ (Starts(i) /\ svc_call.include_content) =>
                IF svc_call.include_references THEN CalledFetcher(i)
                ELSE CalledFetcher(i) <=> ~Unexpired(store, key, now)
          /\ (FetchReturns(i) /\ svc_call.include_references) =>
                /\ KeyIndex(store', key) # 0
                /\ store'[KeyIndex(store', key)] = OutcomeEntry(key, tasks'[i].fetched[1], now)
                /\ Cardinality({j \in 1..Len(store') : store'[j].key = key}) = 1]_vars

\* a day after its content was cached, with the entry still unexpired, a
\* skill is asked for with its references: the fetch is made, fails, and the
\* failure has replaced the cached content
C38_Witness ==
    /\ svc_call.include_references
    /\ now = CACHE_TTL
    /\ stats.hits = 1
    /\ Len(tasks) = 1
    /\ tasks[1].fetched # <<>>
    /\ tasks[1].fetched[1].content = <<>>
    /\ Len(store) = 1
    /\ store[1] = OutcomeEntry(cache_key(tasks[1].result.source, tasks[1].result.id),
                               tasks[1].fetched[1], now)

----------------------------------------------------------------------------
(* Claims about the cache's counters, checked under SpecCache *)

Counters == {"hits", "misses", "sets", "deletes", "evictions"}

\* the step is a call of clear
ClearCall == nOps' = nOps + 1 /\ lastOp'.op = "clear"

\* C39: in every reachable state the number of stored entries is at most
\* sets - deletes - evictions; none of hits, misses, sets, deletes and
\* evictions ever decreases; and clear, which removes every entry, changes
\* none of the counters.
C39_CounterAccounting ==
    /\ [](Len(store) <= stats.sets - stats.deletes - stats.evictions)
    /\ [][\A c \in Counters : stats'[c] >= stats[c]]_vars
    /\ [][ClearCall => store' = <<>> /\ stats' = stats]_vars

\* clear has emptied a store of two entries: the counters still tell of the
\* two sets, and of no delete or eviction
C39_Witness ==
    /\ lastOp.op = "clear"
    /\ store = <<>>
    /\ stats = [hits |-> 0, misses |-> 0, sets |-> 2, deletes |-> 0, evictions |-> 0]

\* a search that did not ask for content is in progress before or after the step
SearchWithoutContent(call) == call.kind = "search" /\ ~call.include_content

\* C40: search with include_content unset fetches no content and does not
\* touch the content cache: from the call to its return the cache's entries
\* and counters and the repo-tree cache stay as they were and no request is
\* sent, and every skill it returns has no content, no fetch_error and an
\* empty list of references.
C40_SearchWithoutContent ==
    /\ [][SearchWithoutContent(svc_call) \/ SearchWithoutContent(svc_call') =>
            UNCHANGED <<store, stats, repo_cache, tree_requests, branch_requests>>]_vars
    /\ [](response.kind = "search" /\ ~response.with_content =>
            /\ ~response.raised
            /\ Len(response.skills) = response.results
            /\ \A k \in 1..Len(response.skills) :
                  /\ response.skills[k].skill # <<>>
                  /\ response.skills[k].skill[1].content = <<>>
                  /\ response.skills[k].skill[1].fetch_error = <<>>
                  /\ response.skills[k].skill[1].references = <<>>)

\* after a call that cached the content of one skill and a failure for
\* another, a search without content returned both skills: the cache was not
\* read
C40_Witness ==
    /\ response.kind = "search"
    /\ ~response.with_content
    /\ response.results = 2
    /\ nCalls = 2
    /\ Len(store) = 2
    /\ stats = [hits |-> 0, misses |-> 2, sets |-> 2, deletes |-> 0, evictions |-> 0]

====
